---------------------------- MODULE Spec2Model ----------------------------
(***************************************************************************)
(* Entity risk assessment: the risk scorer, the entity-name classifier and *)
(* the two anomaly detectors (the stateless one of FakeDataGenerator and   *)
(* the history-keeping one of AnomalyDetector).                            *)
(*                                                                         *)
(* Python values are modelled as follows.                                  *)
(*   float      an exact rational <<n, d>> in lowest terms, d > 0          *)
(*   str        a sequence of one-character strings                        *)
(*   Optional   None or Some(v)                                            *)
(*   keyword argument of a constructor   Unset or Given(v)                 *)
(* Floating-point rounding is not modelled: arithmetic is exact.           *)
(***************************************************************************)
EXTENDS Integers, Sequences, FiniteSets, TLC

VARIABLES
    args,                 \* keyword arguments the scored Entity was built from
    entity,               \* the Entity handed to the RiskScorer
    anomalies,            \* Optional[List[Anomaly]] handed to the RiskScorer
    amount,               \* Optional[float] transaction_amount handed to the RiskScorer
    risk_score,           \* value returned by calculate_risk_score
    reason,               \* value returned by generate_risk_reason
    entity_name,          \* name handed to _classify_entity_type
    entity_type,          \* value returned by _classify_entity_type
    now,                  \* wall clock, in ticks
    transaction_history,  \* AnomalyDetector.transaction_history
    call,                 \* the last detector call: its inputs and what it returned
    ledger,               \* every observation handed to AnomalyDetector, in order
    fake_entity_db,       \* FakeDataGenerator.fake_entity_db
    previous,             \* the detector call that a repeated call is compared with
    heap,                 \* the Entity objects the enricher works on, by identity
    entity_cache,         \* EntityEnricher.entity_cache: name -> identity of an Entity
    task,                 \* the coroutines running enrich_entity / get_entity_details
    analysis              \* the last analyze_transaction request and its response

vars == <<args, entity, anomalies, amount, risk_score, reason,
          entity_name, entity_type, now, transaction_history, call, ledger,
          fake_entity_db, previous, heap, entity_cache, task, analysis>>

scorerVars == <<args, entity, anomalies, amount, risk_score, reason>>
classifierVars == <<entity_name, entity_type>>
detectorVars == <<now, transaction_history, call, ledger>>
generatorVars == <<fake_entity_db, previous>>
enricherVars == <<heap, entity_cache, task>>
apiVars == <<analysis>>

-----------------------------------------------------------------------------
(* Optional values and keyword arguments *)

\* A Python dict is the set of its <<key, value>> items.
EmptyDict == {}
DictKeys(d) == {item[1] : item \in d}
DictGet(d, k) == (CHOOSE item \in d : item[1] = k)[2]
\* d[k] = v
DictPut(d, k, v) == {item \in d : item[1] # k} \cup {<<k, v>>}
\* {k: v for k, v in d.items() if k in keys}
DictKeep(d, keys) == {item \in d : item[1] \in keys}

None == [none |-> TRUE]
Some(v) == [none |-> FALSE, v |-> v]
Unset == [given |-> FALSE]
Given(v) == [given |-> TRUE, v |-> v]

-----------------------------------------------------------------------------
(* Exact rational arithmetic for Python floats *)

Abs(i) == IF i < 0 THEN -i ELSE i

RECURSIVE GCD(_, _)
GCD(a, b) == IF b = 0 THEN a ELSE GCD(b, a % b)

\* the rational n/d (d # 0) in lowest terms with a positive denominator
R(n, d) ==
    LET g == GCD(Abs(n), Abs(d))
        s == IF d < 0 THEN -1 ELSE 1
    IN  <<(s * n) \div g, (s * d) \div g>>

RAdd(a, b) == R(a[1] * b[2] + b[1] * a[2], a[2] * b[2])
RSub(a, b) == R(a[1] * b[2] - b[1] * a[2], a[2] * b[2])
RMul(a, b) ==
    LET x == R(a[1], b[2])
        y == R(b[1], a[2])
    IN  R(x[1] * y[1], x[2] * y[2])
RDivInt(a, k) == RMul(a, R(1, k))
RLt(a, b) == a[1] * b[2] < b[1] * a[2]
RLe(a, b) == a[1] * b[2] <= b[1] * a[2]
RMin(a, b) == IF RLt(b, a) THEN b ELSE a
RMax(a, b) == IF RLt(a, b) THEN b ELSE a
Zero == R(0, 1)
One == R(1, 1)
Half == R(1, 2)

RECURSIVE RSum(_)
RSum(s) == IF s = <<>> THEN Zero ELSE RAdd(s[1], RSum(Tail(s)))

-----------------------------------------------------------------------------
(* Strings *)

UpperCaseLetters ==
    <<"A", "B", "C", "D", "E", "F", "G", "H", "I", "J", "K", "L", "M",
      "N", "O", "P", "Q", "R", "S", "T", "U", "V", "W", "X", "Y", "Z">>
LowerCaseLetters ==
    <<"a", "b", "c", "d", "e", "f", "g", "h", "i", "j", "k", "l", "m",
      "n", "o", "p", "q", "r", "s", "t", "u", "v", "w", "x", "y", "z">>

\* str.lower() on one character
LowerChar(c) ==
    IF \E i \in DOMAIN UpperCaseLetters : UpperCaseLetters[i] = c
    THEN LowerCaseLetters[CHOOSE i \in DOMAIN UpperCaseLetters : UpperCaseLetters[i] = c]
    ELSE c

\* str.lower()
Lower(s) == [i \in DOMAIN s |-> LowerChar(s[i])]

\* re.search(lit + "$", s) for a literal lit: s ends with lit
EndsWith(s, lit) ==
    /\ Len(lit) <= Len(s)
    /\ SubSeq(s, Len(s) - Len(lit) + 1, Len(s)) = lit

\* lit in s
Contains(s, lit) ==
    \E i \in 1..(Len(s) - Len(lit) + 1) : SubSeq(s, i, i + Len(lit) - 1) = lit

\* the text of a character sequence, for f-strings
RECURSIVE Str(_)
Str(s) == IF s = <<>> THEN "" ELSE s[1] \o Str(Tail(s))

\* sep.join(parts)
RECURSIVE Join(_, _)
Join(sep, parts) ==
    IF parts = <<>> THEN ""
    ELSE IF Len(parts) = 1 THEN parts[1]
    ELSE parts[1] \o sep \o Join(sep, Tail(parts))

-----------------------------------------------------------------------------
(* models/entity.py *)

SHELL_COMPANY == "Shell Company"
FINANCIAL_INTERMEDIARY == "Financial Intermediary"
CORPORATION == "Corporation"
NON_PROFIT == "Non-Profit"
GOVERNMENT_AGENCY == "Government Agency"
UNKNOWN == "Unknown"

EntityType ==
    {CORPORATION, NON_PROFIT, SHELL_COMPANY, GOVERNMENT_AGENCY,
     FINANCIAL_INTERMEDIARY, UNKNOWN}

\* Entity(**a): a field that is not given takes the default of its declaration
Entity(a) ==
    [name               |-> a.name,
     type               |-> a.type,
     jurisdiction       |-> IF a.jurisdiction.given THEN a.jurisdiction.v ELSE None,
     incorporation_date |-> IF a.incorporation_date.given
                            THEN a.incorporation_date.v ELSE None,
     sanctions_status   |-> IF a.sanctions_status.given
                            THEN a.sanctions_status.v ELSE FALSE,
     reputation_score   |-> IF a.reputation_score.given
                            THEN a.reputation_score.v ELSE Some(R(0, 1))]

Anomaly(t, sev, desc, ev) ==
    [type |-> t, severity |-> sev, description |-> desc, evidence |-> ev]

\* Python truthiness of an Optional[str]
Truthy(optstr) == ~optstr.none /\ optstr.v # <<>>

-----------------------------------------------------------------------------
(* services/risk_scorer.py *)

weights ==
    [entity_type |-> R(3, 10), sanctions |-> R(25, 100), reputation |-> R(2, 10),
     anomalies |-> R(15, 100), geographic |-> R(1, 10)]

entity_type_risk(t) ==
    CASE t = SHELL_COMPANY -> R(8, 10)
      [] t = FINANCIAL_INTERMEDIARY -> R(6, 10)
      [] t = CORPORATION -> R(4, 10)
      [] t = NON_PROFIT -> R(3, 10)
      [] t = GOVERNMENT_AGENCY -> R(2, 10)
      [] t = UNKNOWN -> R(5, 10)
      [] OTHER -> R(5, 10)

\* RiskScorer.high_risk_jurisdictions: lower-case keys
high_risk_jurisdictions ==
    (<<"r", "u">> :> R(8, 10)) @@ (<<"c", "n">> :> R(7, 10)) @@
    (<<"i", "r">> :> R(9, 10)) @@ (<<"k", "p">> :> R(9, 10)) @@
    (<<"s", "y">> :> R(8, 10)) @@ (<<"v", "e">> :> R(7, 10)) @@
    (<<"m", "m">> :> R(7, 10)) @@ (<<"z", "w">> :> R(6, 10))

AmountNormalizer == 1000000

\* a variant that does not cap the amount factor at 1.0
calculate_anomaly_risk_uncapped(anoms, transaction_amount) ==
    IF anoms.none \/ anoms.v = <<>> THEN Zero
    ELSE
        LET severity_scores == [i \in DOMAIN anoms.v |-> anoms.v[i].severity]
            avg_severity == RDivInt(RSum(severity_scores), Len(severity_scores))
        IN  IF ~transaction_amount.none
            THEN LET amount_factor == R(transaction_amount.v, AmountNormalizer)
                 IN  RDivInt(RAdd(avg_severity, amount_factor), 2)
            ELSE avg_severity

calculate_anomaly_risk(anoms, transaction_amount) ==
    IF anoms.none \/ anoms.v = <<>> THEN Zero
    ELSE
        LET severity_scores == [i \in DOMAIN anoms.v |-> anoms.v[i].severity]
            avg_severity == RDivInt(RSum(severity_scores), Len(severity_scores))
        IN  IF ~transaction_amount.none
            THEN LET amount_factor ==
                         RMin(R(transaction_amount.v, AmountNormalizer), One)
                 IN  RDivInt(RAdd(avg_severity, amount_factor), 2)
            ELSE avg_severity

\* mutant: the jurisdiction is looked up as given, without lower()
calculate_geographic_risk_case_sensitive(jurisdiction) ==
    IF ~Truthy(jurisdiction) THEN Half
    ELSE IF jurisdiction.v \in DOMAIN high_risk_jurisdictions
         THEN high_risk_jurisdictions[jurisdiction.v] ELSE Half

calculate_geographic_risk(jurisdiction) ==
    IF ~Truthy(jurisdiction) THEN Half
    ELSE LET j == Lower(jurisdiction.v)
         IN  IF j \in DOMAIN high_risk_jurisdictions
             THEN high_risk_jurisdictions[j] ELSE Half

\* the dictionary risk_scores of calculate_risk_score
risk_scores(e, anoms, transaction_amount) ==
    [entity_type |-> entity_type_risk(e.type),
     sanctions   |-> IF e.sanctions_status THEN R(8, 10) ELSE Zero,
     reputation  |-> IF ~e.reputation_score.none
                     THEN RSub(One, e.reputation_score.v) ELSE Half,
     anomalies   |-> calculate_anomaly_risk(anoms, transaction_amount),
     geographic  |-> calculate_geographic_risk(e.jurisdiction)]

\* total_risk of calculate_risk_score, before the clamp
total_risk(e, anoms, transaction_amount) ==
    LET rs == risk_scores(e, anoms, transaction_amount)
    IN  RSum(<<RMul(rs.entity_type, weights.entity_type),
               RMul(rs.sanctions, weights.sanctions),
               RMul(rs.reputation, weights.reputation),
               RMul(rs.anomalies, weights.anomalies),
               RMul(rs.geographic, weights.geographic)>>)

\* mutant: the weighted sum is returned without the clamp
calculate_risk_score_unclamped(e, anoms, transaction_amount) ==
    total_risk(e, anoms, transaction_amount)

calculate_risk_score(e, anoms, transaction_amount) ==
    RMin(RMax(total_risk(e, anoms, transaction_amount), Zero), One)

FallbackClause == "Risk score based on standard entity assessment"

\* mutant: the jurisdiction clause is appended before the anomaly clauses
specific_reasons_geo_before_anomalies(e, anoms) ==
    (IF e.type = SHELL_COMPANY
     THEN <<"Entity is classified as a shell company">>
     ELSE IF e.type = FINANCIAL_INTERMEDIARY
     THEN <<"Entity is a financial intermediary">>
     ELSE <<>>)
    \o (IF e.sanctions_status THEN <<"Entity is on sanctions list">> ELSE <<>>)
    \o (IF ~e.reputation_score.none /\ RLt(e.reputation_score.v, R(3, 10))
        THEN <<"Entity has poor reputation based on news analysis">>
        ELSE <<>>)
    \o (IF Truthy(e.jurisdiction)
           /\ Lower(e.jurisdiction.v) \in DOMAIN high_risk_jurisdictions
        THEN <<"Entity is based in a high-risk jurisdiction ("
                   \o Str(e.jurisdiction.v) \o ")">>
        ELSE <<>>)
    \o (IF anoms.none THEN <<>>
        ELSE [i \in DOMAIN anoms.v |->
                 "Anomaly detected: " \o anoms.v[i].description])

\* the list reasons of generate_risk_reason, before the fallback
specific_reasons(e, anoms) ==
    (IF e.type = SHELL_COMPANY
     THEN <<"Entity is classified as a shell company">>
     ELSE IF e.type = FINANCIAL_INTERMEDIARY
     THEN <<"Entity is a financial intermediary">>
     ELSE <<>>)
    \o (IF e.sanctions_status THEN <<"Entity is on sanctions list">> ELSE <<>>)
    \o (IF ~e.reputation_score.none /\ RLt(e.reputation_score.v, R(3, 10))
        THEN <<"Entity has poor reputation based on news analysis">>
        ELSE <<>>)
    \o (IF anoms.none THEN <<>>
        ELSE [i \in DOMAIN anoms.v |->
                 "Anomaly detected: " \o anoms.v[i].description])
    \o (IF Truthy(e.jurisdiction)
           /\ Lower(e.jurisdiction.v) \in DOMAIN high_risk_jurisdictions
        THEN <<"Entity is based in a high-risk jurisdiction ("
                   \o Str(e.jurisdiction.v) \o ")">>
        ELSE <<>>)

generate_risk_reason(e, score, anoms) ==
    LET specific == specific_reasons(e, anoms)
        reasons == IF specific = <<>> THEN <<FallbackClause>> ELSE specific
    IN  Join(" | ", reasons)

-----------------------------------------------------------------------------
(* Time.  The clock counts ticks; a calendar day has TicksPerDay of them.  *)
(* Tick 0 is midnight at the start of the day Epoch.                        *)

TicksPerDay == 2
Epoch == [year |-> 2026, month |-> 11, day |-> 1]

\* datetime.date(): the calendar day of a time, counted from the epoch day
DateOf(t) == t \div TicksPerDay

\* timedelta(days=n), in ticks
Days(n) == n * TicksPerDay

\* (a - b).days
DaysBetween(a, b) == (a - b) \div TicksPerDay

\* f"{amount}" of a float holding a whole number below 1e16
FloatText(a) == ToString(a) \o ".0"

IsLeap(y) == (y % 4 = 0 /\ y % 100 # 0) \/ y % 400 = 0

DaysInMonth(y, m) ==
    IF m = 2 THEN (IF IsLeap(y) THEN 29 ELSE 28)
    ELSE IF m \in {4, 6, 9, 11} THEN 30 ELSE 31

\* the number of the day y-m-d in the proleptic Gregorian calendar
DayNumber(y, m, d) ==
    LET yy == IF m <= 2 THEN y - 1 ELSE y
        era == yy \div 400
        yoe == yy - era * 400
        mp == IF m > 2 THEN m - 3 ELSE m + 9
        doy == (153 * mp + 2) \div 5 + d - 1
        doe == yoe * 365 + yoe \div 4 - yoe \div 100 + doy
    IN  era * 146097 + doe

DigitChars == <<"0", "1", "2", "3", "4", "5", "6", "7", "8", "9">>
IsDigit(c) == \E i \in DOMAIN DigitChars : DigitChars[i] = c
DigitValue(c) == (CHOOSE i \in DOMAIN DigitChars : DigitChars[i] = c) - 1

RECURSIVE Number(_)
Number(s) ==
    IF s = <<>> THEN 0
    ELSE 10 * Number(SubSeq(s, 1, Len(s) - 1)) + DigitValue(s[Len(s)])

AllDigits(s) == \A i \in DOMAIN s : IsDigit(s[i])

\* the ways to read s as YYYY-M[M]-D[D] with a month and a day that exist
DateReadings(s) ==
    {r \in [ml : {1, 2}, dl : {1, 2}] :
        /\ Len(s) = 4 + 1 + r.ml + 1 + r.dl
        /\ AllDigits(SubSeq(s, 1, 4))
        /\ s[5] = "-"
        /\ AllDigits(SubSeq(s, 6, 5 + r.ml))
        /\ s[6 + r.ml] = "-"
        /\ AllDigits(SubSeq(s, 7 + r.ml, Len(s)))
        /\ Number(SubSeq(s, 1, 4)) >= 1
        /\ Number(SubSeq(s, 6, 5 + r.ml)) \in 1..12
        /\ Number(SubSeq(s, 7 + r.ml, Len(s))) \in
               1..DaysInMonth(Number(SubSeq(s, 1, 4)), Number(SubSeq(s, 6, 5 + r.ml)))}

\* datetime.strptime(s, "%Y-%m-%d"): Some(midnight of that day, in ticks), or
\* None where strptime raises ValueError
strptime(s) ==
    IF DateReadings(s) = {} THEN None
    ELSE LET r == CHOOSE r \in DateReadings(s) : TRUE
             y == Number(SubSeq(s, 1, 4))
             m == Number(SubSeq(s, 6, 5 + r.ml))
             d == Number(SubSeq(s, 7 + r.ml, Len(s)))
         IN  Some(Days(DayNumber(y, m, d)
                       - DayNumber(Epoch.year, Epoch.month, Epoch.day)))

-----------------------------------------------------------------------------
(* services/fake_data_generator.py *)

\* FakeDataGenerator.country_risk: upper-case keys
country_risk ==
    (<<"R", "U">> :> R(8, 10)) @@ (<<"C", "N">> :> R(7, 10)) @@
    (<<"I", "R">> :> R(9, 10)) @@ (<<"K", "P">> :> R(9, 10)) @@
    (<<"S", "Y">> :> R(8, 10)) @@ (<<"V", "E">> :> R(7, 10)) @@
    (<<"M", "M">> :> R(7, 10)) @@ (<<"Z", "W">> :> R(6, 10)) @@
    (<<"U", "S">> :> R(2, 10)) @@ (<<"G", "B">> :> R(2, 10)) @@
    (<<"D", "E">> :> R(2, 10)) @@ (<<"F", "R">> :> R(2, 10)) @@
    (<<"C", "A">> :> R(2, 10))

LargeAmount == 1000000
RoundUnit == 1000
RoundFloor == 10000
RecentDays == 180

\* f"{entity.jurisdiction}"
OptText(optstr) == IF optstr.none THEN "None" ELSE Str(optstr.v)

\* a variant that remembers an earlier call: it reports a shell company only
\* while no detector call has been made
fake_entity_anomalies_once(e, t) ==
    (IF ~e.jurisdiction.none
        /\ e.jurisdiction.v \in DOMAIN country_risk
        /\ RLt(R(6, 10), country_risk[e.jurisdiction.v])
     THEN <<Anomaly("high_risk_jurisdiction", country_risk[e.jurisdiction.v],
                    "Entity in high-risk jurisdiction: " \o OptText(e.jurisdiction),
                    <<"Entity jurisdiction is " \o OptText(e.jurisdiction)>>)>>
     ELSE <<>>)
    \o (IF e.type = SHELL_COMPANY /\ call.op = "none"
        THEN <<Anomaly("shell_company", R(8, 10),
                       "Entity appears to be a shell company: " \o Str(e.name),
                       <<"Entity classification", "Structure analysis">>)>>
        ELSE <<>>)
    \o (IF Truthy(e.incorporation_date)
           /\ ~strptime(e.incorporation_date.v).none
           /\ DaysBetween(t, strptime(e.incorporation_date.v).v) < RecentDays
        THEN <<Anomaly("new_entity", R(6, 10),
                       "Recently formed entity: " \o Str(e.name),
                       <<"Incorporation date: " \o Str(e.incorporation_date.v)>>)>>
        ELSE <<>>)

\* the anomalies one entity adds in the loop of generate_fake_anomalies
fake_entity_anomalies(e, t) ==
    (IF ~e.jurisdiction.none
        /\ e.jurisdiction.v \in DOMAIN country_risk
        /\ RLt(R(6, 10), country_risk[e.jurisdiction.v])
     THEN <<Anomaly("high_risk_jurisdiction", country_risk[e.jurisdiction.v],
                    "Entity in high-risk jurisdiction: " \o OptText(e.jurisdiction),
                    <<"Entity jurisdiction is " \o OptText(e.jurisdiction)>>)>>
     ELSE <<>>)
    \o (IF e.type = SHELL_COMPANY
        THEN <<Anomaly("shell_company", R(8, 10),
                       "Entity appears to be a shell company: " \o Str(e.name),
                       <<"Entity classification", "Structure analysis">>)>>
        ELSE <<>>)
    \o (IF Truthy(e.incorporation_date)
           /\ ~strptime(e.incorporation_date.v).none
           /\ DaysBetween(t, strptime(e.incorporation_date.v).v) < RecentDays
        THEN <<Anomaly("new_entity", R(6, 10),
                       "Recently formed entity: " \o Str(e.name),
                       <<"Incorporation date: " \o Str(e.incorporation_date.v)>>)>>
        ELSE <<>>)

RECURSIVE fake_entities_anomalies(_, _)
fake_entities_anomalies(entities, t) ==
    IF entities = <<>> THEN <<>>
    ELSE fake_entity_anomalies(entities[1], t)
             \o fake_entities_anomalies(Tail(entities), t)

\* the local list anomalies of generate_fake_anomalies when its body ends
fake_anomalies(amt, entities, t) ==
    (IF amt > LargeAmount
     THEN <<Anomaly("large_transaction", RMin(R(amt, LargeAmount), One),
                    "Large transaction amount: " \o FloatText(amt),
                    <<"Transaction amount exceeds threshold">>)>>
     ELSE <<>>)
    \o (IF amt % RoundUnit = 0 /\ amt > RoundFloor
        THEN <<Anomaly("round_amount", R(7, 10),
                       "Round number transaction: " \o FloatText(amt),
                       <<"Transaction amount is a round number">>)>>
        ELSE <<>>)
    \o fake_entities_anomalies(entities, t)

\* mutant: the body ends with "return anomalies"
generate_fake_anomalies_returning(amt, entities, t) ==
    Some(fake_anomalies(amt, entities, t))

\* what generate_fake_anomalies returns: its body builds the list above and
\* ends without a return statement, so the caller receives None
generate_fake_anomalies(amt, entities, t) == None

-----------------------------------------------------------------------------
(* services/anomaly_detector.py *)

thresholds ==
    [amount |-> 1000000, frequency |-> 5, velocity |-> 100000,
     round_amount |-> 1000, new_entity |-> 30]

HistoryDays == 30

is_round_number(amt) == amt % thresholds.round_amount = 0

\* [x for x in s if Test(x)]
RECURSIVE SelectTransactions(_, _)
SelectTransactions(s, cutoff_time) ==
    IF s = <<>> THEN <<>>
    ELSE (IF s[1].time > cutoff_time THEN <<s[1]>> ELSE <<>>)
             \o SelectTransactions(Tail(s), cutoff_time)

\* a variant that removes nothing
cleanup_transaction_history_keep_all(entry, t) == entry

\* the entry of an entity after _cleanup_transaction_history at time t
cleanup_transaction_history(entry, t) ==
    LET cutoff_time == t - Days(HistoryDays)
        cutoff_date == DateOf(cutoff_time)
    IN  [entry EXCEPT
            !.transactions = SelectTransactions(entry.transactions, cutoff_time),
            !.daily_amounts =
                DictKeep(entry.daily_amounts,
                         {d \in DictKeys(entry.daily_amounts) : d > cutoff_date})]

\* a variant that starts an entity anew when none of its transactions is
\* left in the window
update_transaction_history_forgetful(history, ename, amt, currency, t) ==
    LET known == IF ename \notin DictKeys(history) THEN FALSE
                 ELSE cleanup_transaction_history(DictGet(history, ename), t)
                          .transactions # <<>>
        entry0 ==
            IF ~known
            THEN [transactions |-> <<>>, daily_amounts |-> EmptyDict, first_seen |-> t]
            ELSE DictGet(history, ename)
        date_key == DateOf(t)
        before == IF date_key \notin DictKeys(entry0.daily_amounts)
                  THEN 0 ELSE DictGet(entry0.daily_amounts, date_key)
        entry1 ==
            [entry0 EXCEPT
                !.transactions =
                    Append(@, [time |-> t, amount |-> amt, currency |-> currency]),
                !.daily_amounts = DictPut(@, date_key, before + amt)]
    IN  DictPut(history, ename, cleanup_transaction_history(entry1, t))

\* transaction_history after _update_transaction_history at time t
update_transaction_history(history, ename, amt, currency, t) ==
    LET entry0 ==
            IF ename \notin DictKeys(history)
            THEN [transactions |-> <<>>, daily_amounts |-> EmptyDict, first_seen |-> t]
            ELSE DictGet(history, ename)
        date_key == DateOf(t)
        before == IF date_key \notin DictKeys(entry0.daily_amounts)
                  THEN 0 ELSE DictGet(entry0.daily_amounts, date_key)
        entry1 ==
            [entry0 EXCEPT
                !.transactions =
                    Append(@, [time |-> t, amount |-> amt, currency |-> currency]),
                !.daily_amounts = DictPut(@, date_key, before + amt)]
    IN  DictPut(history, ename, cleanup_transaction_history(entry1, t))

\* a variant that already fires on the fifth transaction of the day
check_transaction_frequency_from_fifth(history, ename, t) ==
    IF ename \notin DictKeys(history) THEN FALSE
    ELSE LET today == DateOf(t)
             txs == DictGet(history, ename).transactions
             today_transactions ==
                 Cardinality({i \in DOMAIN txs : DateOf(txs[i].time) = today})
         IN  today_transactions >= thresholds.frequency

check_transaction_frequency(history, ename, t) ==
    IF ename \notin DictKeys(history) THEN FALSE
    ELSE LET today == DateOf(t)
             txs == DictGet(history, ename).transactions
             today_transactions ==
                 Cardinality({i \in DOMAIN txs : DateOf(txs[i].time) = today})
         IN  today_transactions > thresholds.frequency

\* a variant that adds up the amounts of every recorded day
check_transaction_velocity_all_days(history, ename, t) ==
    IF ename \notin DictKeys(history) THEN FALSE
    ELSE LET daily == DictGet(history, ename).daily_amounts
             total[ds \in SUBSET DictKeys(daily)] ==
                 IF ds = {} THEN 0
                 ELSE LET d == CHOOSE d \in ds : TRUE
                      IN  DictGet(daily, d) + total[ds \ {d}]
         IN  total[DictKeys(daily)] > thresholds.velocity

check_transaction_velocity(history, ename, t) ==
    IF ename \notin DictKeys(history) THEN FALSE
    ELSE LET today == DateOf(t)
             daily == DictGet(history, ename).daily_amounts
             today_amount == IF today \in DictKeys(daily)
                             THEN DictGet(daily, today) ELSE 0
         IN  today_amount > thresholds.velocity

\* a variant for which an entity first seen exactly 30 days ago is still new
is_new_entity_on_thirtieth_day(history, ename, t) ==
    IF ename \notin DictKeys(history) THEN TRUE
    ELSE DaysBetween(t, DictGet(history, ename).first_seen) <= thresholds.new_entity

is_new_entity(history, ename, t) ==
    IF ename \notin DictKeys(history) THEN TRUE
    ELSE DaysBetween(t, DictGet(history, ename).first_seen) < thresholds.new_entity

\* the anomalies one entity adds in the loop of detect_anomalies, given the
\* history as updated for that entity
detect_entity_anomalies(history, e, t) ==
    (IF check_transaction_frequency(history, e.name, t)
     THEN <<Anomaly("high_frequency", R(8, 10),
                    "High transaction frequency for " \o Str(e.name),
                    <<"Transaction frequency exceeds threshold">>)>>
     ELSE <<>>)
    \o (IF check_transaction_velocity(history, e.name, t)
        THEN <<Anomaly("high_velocity", R(8, 10),
                       "High transaction velocity for " \o Str(e.name),
                       <<"Transaction velocity exceeds threshold">>)>>
        ELSE <<>>)
    \o (IF is_new_entity(history, e.name, t)
        THEN <<Anomaly("new_entity", R(6, 10),
                       "New entity detected: " \o Str(e.name),
                       <<"Entity is new to the system">>)>>
        ELSE <<>>)

\* the loop "for entity in entities" of detect_anomalies: the history and the
\* anomaly list after it, from the history and the list before it
RECURSIVE detect_loop(_, _, _, _, _, _)
detect_loop(history, found, amt, currency, entities, t) ==
    IF entities = <<>> THEN [history |-> history, anomalies |-> found]
    ELSE LET h == update_transaction_history(history, entities[1].name,
                                             amt, currency, t)
         IN  detect_loop(h, found \o detect_entity_anomalies(h, entities[1], t),
                         amt, currency, Tail(entities), t)

\* detect_anomalies at time t: the history it leaves and the list it returns.
\* Every datetime.now() of one call reads the same time t.
detect_anomalies(history, amt, currency, entities, t) ==
    LET head ==
            (IF amt > thresholds.amount
             THEN <<Anomaly("large_transaction",
                            RMin(R(amt, thresholds.amount), One),
                            "Large transaction amount: " \o FloatText(amt)
                                \o " " \o currency,
                            <<"Transaction amount exceeds threshold">>)>>
             ELSE <<>>)
            \o (IF is_round_number(amt)
                THEN <<Anomaly("round_amount", R(7, 10),
                               "Round number transaction: " \o FloatText(amt)
                                   \o " " \o currency,
                               <<"Transaction amount is a round number">>)>>
                ELSE <<>>)
    IN  detect_loop(history, head, amt, currency, entities, t)

-----------------------------------------------------------------------------
(* Inputs of the risk-scorer scenario *)

MaxAnomalies == 2

ru == <<"r", "u">>
RU == <<"R", "U">>
zw == <<"z", "w">>
US == <<"U", "S">>

SeqsUpTo(S, n) == UNION {[1..k -> S] : k \in 0..n}

ScorerReputations ==
    {Unset, Given(None), Given(Some(R(2, 10))), Given(Some(R(3, 10))),
     Given(Some(R(1, 1)))}

ScorerJurisdictions ==
    {Unset, Given(Some(<<>>)), Given(Some(ru)), Given(Some(RU)),
     Given(Some(zw)), Given(Some(US))}

ScorerSanctions == {Unset, Given(TRUE)}

ScorerArgs ==
    [name : {<<"A", "c", "m", "e">>},
     type : EntityType,
     jurisdiction : ScorerJurisdictions,
     incorporation_date : {Unset},
     sanctions_status : ScorerSanctions,
     reputation_score : ScorerReputations]

ScorerAnomalyPool ==
    {Anomaly("large_transaction", R(1, 1), "Large transaction amount: 2000000.0",
             <<"Transaction amount exceeds threshold">>),
     Anomaly("round_amount", R(7, 10), "Round number transaction: 20000.0",
             <<"Transaction amount is a round number">>)}

ScorerAnomalies ==
    {None} \cup {Some(l) : l \in SeqsUpTo(ScorerAnomalyPool, MaxAnomalies)}

ScorerAmounts ==
    {None, Some(-10000000), Some(500000), Some(2000000)}

-----------------------------------------------------------------------------
(* Initial values of the parts a scenario does not use *)

IdleScorer ==
    /\ args = Unset
    /\ entity = None
    /\ anomalies = None
    /\ amount = None
    /\ risk_score = None
    /\ reason = None

IdleClassifier ==
    /\ entity_name = <<>>
    /\ entity_type = None

IdleDetector ==
    /\ now = 0
    /\ transaction_history = EmptyDict
    /\ call = [op |-> "none"]
    /\ ledger = <<>>

\* FakeDataGenerator.__init__
IdleGenerator ==
    /\ fake_entity_db = EmptyDict
    /\ previous = [op |-> "none"]

\* the coroutines that may run methods of the EntityEnricher
Coroutines == {1, 2}

\* a coroutine with no call in progress; otherwise op is the method called,
\* name its entity name, entity the identity of its local variable entity,
\* session whether its ClientSession is "none", "open" or "closed", and
\* pc the await it is suspended at
IdleTask ==
    [pc |-> "idle", op |-> "none", name |-> <<>>, entity |-> 0,
     session |-> "none", registry_data |-> None, sanctions_status |-> FALSE,
     reputation_data |-> None, result |-> None]

\* EntityEnricher.__init__
IdleEnricher ==
    /\ heap = <<>>
    /\ entity_cache = EmptyDict
    /\ task = [c \in Coroutines |-> IdleTask]

\* no request has been analysed
IdleApi == analysis = [op |-> "none", served |-> 0]

-----------------------------------------------------------------------------
(* The risk-scorer scenario: an entity is built, scored, and explained *)

InitScorer ==
    /\ args \in ScorerArgs
    /\ entity = Some(Entity(args))
    /\ anomalies \in ScorerAnomalies
    /\ amount \in ScorerAmounts
    /\ risk_score = None
    /\ reason = None
    /\ IdleClassifier
    /\ IdleDetector
    /\ IdleGenerator
    /\ IdleEnricher
    /\ IdleApi

\* risk_score = risk_scorer.calculate_risk_score(entity, anomalies, amount)
CalculateRiskScore ==
    /\ ~entity.none
    /\ risk_score.none
    /\ risk_score' = Some(calculate_risk_score(entity.v, anomalies, amount))
    /\ UNCHANGED <<args, entity, anomalies, amount, reason>>
    /\ UNCHANGED <<classifierVars, detectorVars, generatorVars, enricherVars, apiVars>>

\* reason = risk_scorer.generate_risk_reason(entity, risk_score, anomalies)
GenerateRiskReason ==
    /\ ~entity.none
    /\ ~risk_score.none
    /\ reason.none
    /\ reason' = Some(generate_risk_reason(entity.v, risk_score.v, anomalies))
    /\ UNCHANGED <<args, entity, anomalies, amount, risk_score>>
    /\ UNCHANGED <<classifierVars, detectorVars, generatorVars, enricherVars, apiVars>>

NextScorer == CalculateRiskScore \/ GenerateRiskReason

SpecScorer == InitScorer /\ [][NextScorer]_vars

-----------------------------------------------------------------------------
(* Claims about the risk scorer, checked under SpecScorer *)

Scored == ~risk_score.none
Explained == ~reason.none
NoAnomalies == anomalies.none \/ anomalies.v = <<>>

\* The five sub-scores and their weighted sum, as the specification words them.
StatedTypeRisk(t) ==
    IF t = SHELL_COMPANY THEN R(8, 10)
    ELSE IF t = FINANCIAL_INTERMEDIARY THEN R(6, 10)
    ELSE IF t = CORPORATION THEN R(4, 10)
    ELSE IF t = NON_PROFIT THEN R(3, 10)
    ELSE IF t = GOVERNMENT_AGENCY THEN R(2, 10)
    ELSE R(5, 10)

StatedHighRiskTable ==
    {<<"ru", 8>>, <<"cn", 7>>, <<"ir", 9>>, <<"kp", 9>>,
     <<"sy", 8>>, <<"ve", 7>>, <<"mm", 7>>, <<"zw", 6>>}

\* the table rows a jurisdiction matches when compared case-insensitively
StatedHighRiskRows(j) ==
    IF j.none THEN {}
    ELSE {row \in StatedHighRiskTable : Str(Lower(j.v)) = row[1]}

StatedGeographicRisk(j) ==
    IF StatedHighRiskRows(j) = {} THEN R(5, 10)
    ELSE R((CHOOSE row \in StatedHighRiskRows(j) : TRUE)[2], 10)

StatedAnomalyRisk ==
    IF NoAnomalies THEN R(0, 1)
    ELSE LET n == Len(anomalies.v)
             total == RSum([i \in 1..n |-> anomalies.v[i].severity])
             mean == RMul(total, R(1, n))
         IN  IF amount.none THEN mean
             ELSE LET scaled == R(amount.v, 1000000)
                      capped == IF RLt(R(1, 1), scaled) THEN R(1, 1) ELSE scaled
                  IN  RMul(R(1, 2), RAdd(mean, capped))

StatedReputationRisk ==
    IF entity.v.reputation_score.none THEN R(1, 2)
    ELSE RSub(R(1, 1), entity.v.reputation_score.v)

StatedWeightedSum ==
    RAdd(RAdd(RAdd(RAdd(
        RMul(R(30, 100), StatedTypeRisk(entity.v.type)),
        RMul(R(25, 100), IF entity.v.sanctions_status THEN R(8, 10) ELSE R(0, 1))),
        RMul(R(20, 100), StatedReputationRisk)),
        RMul(R(15, 100), StatedAnomalyRisk)),
        RMul(R(10, 100), StatedGeographicRisk(entity.v.jurisdiction)))

\* C1: whatever the entity, the anomaly list and the amount are, the value
\* calculate_risk_score returns lies in [0, 1].
C1_ScoreInUnitInterval ==
    Scored => RLe(R(0, 1), risk_score.v) /\ RLe(risk_score.v, R(1, 1))

\* C1 witness: a score was returned for inputs whose weighted sum is negative,
\* so the returned value is in range only because of the clamp.
C1_Witness ==
    /\ Scored
    /\ RLt(StatedWeightedSum, R(0, 1))
    /\ risk_score.v = R(0, 1)

SanctionedShellInRu ==
    /\ args.type = SHELL_COMPANY
    /\ args.sanctions_status = Given(TRUE)
    /\ args.jurisdiction = Given(Some(ru))
    /\ ~args.reputation_score.given

\* C3: the reputation sub-score is the neutral 0.5 when no reputation was
\* supplied, so a sanctioned shell company in "ru" built without a reputation
\* score and scored with no anomalies gets 0.24 + 0.20 + 0.10 + 0.08 = 0.62.
C3_AbsentReputationIsNeutral ==
    (Scored /\ ~args.reputation_score.given) =>
        /\ risk_scores(entity.v, anomalies, amount).reputation = R(1, 2)
        /\ (SanctionedShellInRu /\ NoAnomalies) => risk_score.v = R(62, 100)

\* an entity with no special attributes, built with the default reputation
PlainEntity ==
    /\ args.type \notin {SHELL_COMPANY, FINANCIAL_INTERMEDIARY}
    /\ ~entity.v.sanctions_status
    /\ ~args.reputation_score.given
    /\ StatedHighRiskRows(entity.v.jurisdiction) = {}

\* C4: generate_risk_reason never returns an empty string, and for an entity
\* with no special attributes and no anomalies it returns exactly the fallback
\* clause.
C4_ReasonNeverEmptyAndFallback ==
    Explained =>
        /\ reason.v # ""
        /\ (PlainEntity /\ NoAnomalies) =>
               reason.v = "Risk score based on standard entity assessment"

\* The clauses the specification lists, in its order.
StatedClauses ==
    LET e == entity.v
        typeClause ==
            IF e.type = SHELL_COMPANY
            THEN <<"Entity is classified as a shell company">>
            ELSE IF e.type = FINANCIAL_INTERMEDIARY
            THEN <<"Entity is a financial intermediary">>
            ELSE <<>>
        sanctionsClause ==
            IF e.sanctions_status THEN <<"Entity is on sanctions list">> ELSE <<>>
        reputationClause ==
            IF ~e.reputation_score.none /\ RLt(e.reputation_score.v, R(3, 10))
            THEN <<"Entity has poor reputation based on news analysis">>
            ELSE <<>>
        anomalyClauses ==
            IF anomalies.none THEN <<>>
            ELSE [i \in 1..Len(anomalies.v) |->
                     "Anomaly detected: " \o anomalies.v[i].description]
        jurisdictionClause ==
            IF StatedHighRiskRows(e.jurisdiction) # {}
            THEN <<"Entity is based in a high-risk jurisdiction ("
                       \o Str(e.jurisdiction.v) \o ")">>
            ELSE <<>>
    IN  typeClause \o sanctionsClause \o reputationClause
            \o anomalyClauses \o jurisdictionClause

\* C5: the reason is the clauses joined with " | " in the order type,
\* sanctions, reputation, one per anomaly in the given order, jurisdiction;
\* the fallback clause is the reason iff none of them applies.
C5_ClausesInFixedOrder ==
    Explained =>
        /\ StatedClauses # <<>> => reason.v = Join(" | ", StatedClauses)
        /\ (StatedClauses = <<>>)
               <=> (reason.v = "Risk score based on standard entity assessment")

\* C5 witness: a reason was returned for a sanctioned shell company of poor
\* reputation in an upper-case high-risk jurisdiction, with two different
\* anomalies: every kind of clause is present.
C5_Witness ==
    /\ Explained
    /\ entity.v.type = SHELL_COMPANY
    /\ entity.v.sanctions_status
    /\ entity.v.reputation_score = Some(R(2, 10))
    /\ entity.v.jurisdiction = Some(RU)
    /\ ~anomalies.none
    /\ Len(anomalies.v) = 2
    /\ anomalies.v[1] # anomalies.v[2]
    /\ Len(StatedClauses) = 6

-----------------------------------------------------------------------------
(* services/entity_extractor.py *)

\* re.search(lit + "$", s): "$" matches at the end of the string and also
\* just before a newline that ends the string
ReSearchAtEnd(s, lit) == EndsWith(s, lit) \/ EndsWith(s, lit \o <<"\n">>)

\* company_suffixes; a pattern with an optional dot, such as inc\.?$, is
\* listed without and with the dot
company_suffixes ==
    <<<<"i", "n", "c">>,
      <<"i", "n", "c", ".">>,
      <<"c", "o", "r", "p">>,
      <<"c", "o", "r", "p", ".">>,
      <<"c", "o", "r", "p", "o", "r", "a", "t", "i", "o", "n">>,
      <<"l", "t", "d">>,
      <<"l", "t", "d", ".">>,
      <<"l", "i", "m", "i", "t", "e", "d">>,
      <<"l", "l", "c">>,
      <<"g", "m", "b", "h">>,
      <<"s", ".", "a", ".">>,
      <<"s", ".", "p", ".", "a", ".">>,
      <<"p", "l", "c">>>>

nonprofit_indicators ==
    <<<<"f", "o", "u", "n", "d", "a", "t", "i", "o", "n">>,
      <<"c", "h", "a", "r", "i", "t", "y">>,
      <<"n", "g", "o">>,
      <<"n", "o", "n", "-", "p", "r", "o", "f", "i", "t">>,
      <<"n", "o", "n", "p", "r", "o", "f", "i", "t">>,
      <<"a", "s", "s", "o", "c", "i", "a", "t", "i", "o", "n">>,
      <<"s", "o", "c", "i", "e", "t", "y">>,
      <<"t", "r", "u", "s", "t">>>>

shell_indicators ==
    <<<<"h", "o", "l", "d", "i", "n", "g", "s">>,
      <<"i", "n", "v", "e", "s", "t", "m", "e", "n", "t", "s">>,
      <<"g", "r", "o", "u", "p">>,
      <<"c", "a", "p", "i", "t", "a", "l">>,
      <<"p", "a", "r", "t", "n", "e", "r", "s">>,
      <<"m", "a", "n", "a", "g", "e", "m", "e", "n", "t">>,
      <<"c", "o", "n", "s", "u", "l", "t", "i", "n", "g">>,
      <<"a", "d", "v", "i", "s", "o", "r", "y">>>>

government_words ==
    <<<<"g", "o", "v", "e", "r", "n", "m", "e", "n", "t">>,
      <<"m", "i", "n", "i", "s", "t", "r", "y">>,
      <<"d", "e", "p", "a", "r", "t", "m", "e", "n", "t">>,
      <<"a", "g", "e", "n", "c", "y">>>>

financial_words ==
    <<<<"b", "a", "n", "k">>,
      <<"f", "i", "n", "a", "n", "c", "i", "a", "l">>,
      <<"i", "n", "v", "e", "s", "t", "m", "e", "n", "t">>,
      <<"f", "u", "n", "d">>>>

\* any(re.search(pattern, entity_name) for pattern in patterns)
AnySearch(patterns, n) == \E i \in DOMAIN patterns : ReSearchAtEnd(n, patterns[i])

\* any(word in entity_name for word in words)
AnyWordIn(words, n) == \E i \in DOMAIN words : Contains(n, words[i])

\* mutant: the name is matched as given, without lower()
classify_entity_type_no_lower(name) ==
    IF AnySearch(nonprofit_indicators, name) THEN NON_PROFIT
    ELSE IF AnySearch(shell_indicators, name) THEN SHELL_COMPANY
    ELSE IF AnySearch(company_suffixes, name) THEN CORPORATION
    ELSE IF AnyWordIn(government_words, name) THEN GOVERNMENT_AGENCY
    ELSE IF AnyWordIn(financial_words, name) THEN FINANCIAL_INTERMEDIARY
    ELSE UNKNOWN

\* mutant: a non-profit indicator is searched anywhere in the name
classify_entity_type_nonprofit_anywhere(name) ==
    LET n == Lower(name)
    IN  IF AnyWordIn(nonprofit_indicators, n) THEN NON_PROFIT
        ELSE IF AnySearch(shell_indicators, n) THEN SHELL_COMPANY
        ELSE IF AnySearch(company_suffixes, n) THEN CORPORATION
        ELSE IF AnyWordIn(government_words, n) THEN GOVERNMENT_AGENCY
        ELSE IF AnyWordIn(financial_words, n) THEN FINANCIAL_INTERMEDIARY
        ELSE UNKNOWN

classify_entity_type(name) ==
    LET n == Lower(name)
    IN  IF AnySearch(nonprofit_indicators, n) THEN NON_PROFIT
        ELSE IF AnySearch(shell_indicators, n) THEN SHELL_COMPANY
        ELSE IF AnySearch(company_suffixes, n) THEN CORPORATION
        ELSE IF AnyWordIn(government_words, n) THEN GOVERNMENT_AGENCY
        ELSE IF AnyWordIn(financial_words, n) THEN FINANCIAL_INTERMEDIARY
        ELSE UNKNOWN

-----------------------------------------------------------------------------
(* The classifier scenario: a name of up to MaxWords words is classified *)

MaxWords == 3

NameWords ==
    <<<<"E", "x", "a", "m", "p", "l", "e">>,
      <<"F", "o", "u", "n", "d", "a", "t", "i", "o", "n">>,
      <<"I", "n", "c">>,
      <<"H", "O", "L", "D", "I", "N", "G", "S">>,
      <<"B", "a", "n", "k">>,
      <<"M", "i", "n", "i", "s", "t", "r", "y">>,
      <<"T", "r", "u", "s", "t">>,
      <<"C", "o", "r", "p", ".">>>>

\* " ".join(words)
RECURSIVE JoinWords(_)
JoinWords(ws) ==
    IF Len(ws) = 1 THEN ws[1] ELSE ws[1] \o <<" ">> \o JoinWords(Tail(ws))

EntityNames ==
    {JoinWords([i \in DOMAIN ws |-> NameWords[ws[i]]]) :
        ws \in UNION {[1..k -> DOMAIN NameWords] : k \in 1..MaxWords}}

InitClassifier ==
    /\ entity_name \in EntityNames
    /\ entity_type = None
    /\ IdleScorer
    /\ IdleDetector
    /\ IdleGenerator
    /\ IdleEnricher
    /\ IdleApi

\* entity_type = self._classify_entity_type(ent.text)
ClassifyEntityType ==
    /\ entity_type.none
    /\ entity_type' = Some(classify_entity_type(entity_name))
    /\ UNCHANGED entity_name
    /\ UNCHANGED <<scorerVars, detectorVars, generatorVars, enricherVars, apiVars>>

NextClassifier == ClassifyEntityType

SpecClassifier == InitClassifier /\ [][NextClassifier]_vars

-----------------------------------------------------------------------------
(* Claims about the classifier, checked under SpecClassifier *)

Classified == ~entity_type.none

w_foundation == <<"f", "o", "u", "n", "d", "a", "t", "i", "o", "n">>
w_holdings == <<"h", "o", "l", "d", "i", "n", "g", "s">>
w_bank == <<"b", "a", "n", "k">>
ExampleFoundationInc ==
    <<"E", "x", "a", "m", "p", "l", "e", " ",
      "F", "o", "u", "n", "d", "a", "t", "i", "o", "n", " ", "I", "n", "c">>

\* the lower-cased name carries one of the words / ends with one of the words
CarriesAny(words) ==
    \E i \in DOMAIN words : Contains(Lower(entity_name), words[i])
EndsWithAny(words) ==
    \E i \in DOMAIN words : EndsWith(Lower(entity_name), words[i])

\* C6 as stated: a name that carries a non-profit indicator word and also
\* ends with a corporate suffix, such as "Example Foundation Inc", is
\* classified NonProfit.
C6_IndicatorWordBeatsSuffix ==
    (Classified /\ CarriesAny(nonprofit_indicators) /\ EndsWithAny(company_suffixes))
        => entity_type.v = NON_PROFIT

\* C6 amended: the non-profit check comes first but matches only at the end
\* of the name.  A name is NonProfit exactly when it ends with a non-profit
\* indicator, whatever else it carries; a name that ends with a corporate
\* suffix is a Corporation even when it carries a non-profit indicator word,
\* so "Example Foundation Inc" is a Corporation.
C6_NonProfitOnlyAtEnd ==
    Classified =>
        /\ (entity_type.v = NON_PROFIT) <=> EndsWithAny(nonprofit_indicators)
        /\ EndsWithAny(company_suffixes) => entity_type.v = CORPORATION
        /\ entity_name = ExampleFoundationInc => entity_type.v = CORPORATION

\* C6 witness: "Example Foundation Inc" has been classified.
C6_Witness ==
    /\ Classified
    /\ entity_name = ExampleFoundationInc
    /\ CarriesAny(nonprofit_indicators)
    /\ EndsWithAny(company_suffixes)

\* The rules in their order, each with the way its indicators are matched.
StatedRules ==
    <<[type |-> NON_PROFIT, atEnd |-> TRUE, words |-> nonprofit_indicators],
      [type |-> SHELL_COMPANY, atEnd |-> TRUE, words |-> shell_indicators],
      [type |-> CORPORATION, atEnd |-> TRUE, words |-> company_suffixes],
      [type |-> GOVERNMENT_AGENCY, atEnd |-> FALSE, words |-> government_words],
      [type |-> FINANCIAL_INTERMEDIARY, atEnd |-> FALSE, words |-> financial_words]>>

RuleMatches(k) ==
    IF StatedRules[k].atEnd
    THEN EndsWithAny(StatedRules[k].words)
    ELSE CarriesAny(StatedRules[k].words)

\* C7: the classifier is total and case-insensitive and returns the type of
\* the first rule, in the order non-profit, shell company, corporate suffix,
\* government, financial intermediary, that matches the lower-cased name; it
\* returns Unknown iff no rule matches.
C7_FirstMatchingRule ==
    Classified =>
        /\ entity_type.v \in EntityType
        /\ \A k \in DOMAIN StatedRules :
               (RuleMatches(k) /\ \A j \in 1..(k - 1) : ~RuleMatches(j))
                   => entity_type.v = StatedRules[k].type
        /\ (entity_type.v = UNKNOWN) <=> (\A k \in DOMAIN StatedRules : ~RuleMatches(k))

\* C7 witness: an upper-case name ending in "holdings" that also carries
\* "bank" has been classified a shell company.
C7_Witness ==
    /\ Classified
    /\ EndsWith(Lower(entity_name), w_holdings)
    /\ ~EndsWith(entity_name, w_holdings)
    /\ Contains(Lower(entity_name), w_bank)
    /\ entity_type.v = SHELL_COMPANY

-----------------------------------------------------------------------------
(* The detector scenarios: the detectors are called with at most           *)
(* MaxEntities entities a call, while the clock advances up to MaxNow      *)
(* ticks; AnomalyDetector is called for an entity whose history holds      *)
(* fewer than MaxTransactions entries                                      *)

MaxEntities == 2
MaxNow == 2
MaxTransactions == 1

Acme == <<"A", "c", "m", "e">>
Zed == <<"Z", "e", "d">>

DetectorArgs ==
    {[name |-> Acme, type |-> SHELL_COMPANY, jurisdiction |-> Given(Some(RU)),
      incorporation_date |-> Given(Some(<<"2", "0", "2", "6", "-", "1", "0", "-", "0", "1">>)),
      sanctions_status |-> Unset, reputation_score |-> Unset],
     [name |-> Zed, type |-> CORPORATION, jurisdiction |-> Given(Some(ru)),
      incorporation_date |-> Given(Some(<<"2", "0", "2", "0", "-", "0", "1", "-", "1", "5">>)),
      sanctions_status |-> Unset, reputation_score |-> Unset],
     [name |-> Zed, type |-> CORPORATION, jurisdiction |-> Given(Some(zw)),
      incorporation_date |-> Given(Some(<<"0", "1", "/", "1", "5", "/", "2", "0", "2", "0">>)),
      sanctions_status |-> Unset, reputation_score |-> Unset],
     [name |-> Acme, type |-> CORPORATION, jurisdiction |-> Given(Some(US)),
      incorporation_date |-> Unset,
      sanctions_status |-> Unset, reputation_score |-> Unset]}

DetectorEntities == {Entity(a) : a \in DetectorArgs}
DetectorEntityLists == SeqsUpTo(DetectorEntities, MaxEntities)
DetectorAmounts == {5000, 5001, 20000, 500000, 2000000}
DetectorCurrencies == {"USD"}

InitDetector ==
    /\ now = 0
    /\ transaction_history = EmptyDict
    /\ call = [op |-> "none"]
    /\ ledger = <<>>
    /\ IdleScorer
    /\ IdleClassifier
    /\ IdleGenerator
    /\ IdleEnricher
    /\ IdleApi

\* anomalies = fake_data_generator.generate_fake_anomalies(amt, entities)
GenerateFakeAnomalies(amt, entities) ==
    /\ call' = [op |-> "generate_fake_anomalies",
                amount |-> amt,
                entities |-> entities,
                time |-> now,
                result |-> generate_fake_anomalies(amt, entities, now),
                local |-> fake_anomalies(amt, entities, now)]
    /\ UNCHANGED <<now, transaction_history, ledger>>
    /\ UNCHANGED <<scorerVars, classifierVars, generatorVars, enricherVars, apiVars>>

\* anomalies = anomaly_detector.detect_anomalies(amt, currency, entities)
DetectAnomalies(amt, currency, entities) ==
    LET r == detect_anomalies(transaction_history, amt, currency, entities, now)
    IN  /\ transaction_history' = r.history
        /\ call' = [op |-> "detect_anomalies",
                    amount |-> amt,
                    entities |-> entities,
                    time |-> now,
                    result |-> Some(r.anomalies),
                    local |-> r.anomalies]
        /\ ledger' = ledger \o [i \in DOMAIN entities |->
                                   [name |-> entities[i].name,
                                    amount |-> amt, time |-> now]]
        /\ UNCHANGED now
        /\ UNCHANGED <<scorerVars, classifierVars, generatorVars, enricherVars, apiVars>>

\* the history of every entity of the call has room for one more entry
HistoryHasRoom(entities) ==
    \A i \in DOMAIN entities :
        IF entities[i].name \in DictKeys(transaction_history)
        THEN Len(DictGet(transaction_history, entities[i].name).transactions)
                 < MaxTransactions
        ELSE TRUE

\* time passes
Tick ==
    /\ now < MaxNow
    /\ now' = now + 1
    /\ UNCHANGED <<transaction_history, call, ledger>>
    /\ UNCHANGED <<scorerVars, classifierVars, generatorVars, enricherVars, apiVars>>

\* The stateless detector alone, on every amount and entity list.
NextStateless ==
    \/ \E amt \in DetectorAmounts, es \in DetectorEntityLists :
           GenerateFakeAnomalies(amt, es)
    \/ Tick

SpecStateless == InitDetector /\ [][NextStateless]_vars

\* Both detectors side by side, on the amounts around the round-amount rule
\* and on the entities named Acme.
RoundAmounts == {5000, 5001, 20000}
RoundEntityLists ==
    SeqsUpTo({e \in DetectorEntities : e.name = Acme}, MaxEntities)

NextDetectors ==
    \/ \E amt \in RoundAmounts, es \in RoundEntityLists :
           GenerateFakeAnomalies(amt, es)
    \/ \E amt \in RoundAmounts, cur \in DetectorCurrencies,
          es \in RoundEntityLists :
           HistoryHasRoom(es) /\ DetectAnomalies(amt, cur, es)
    \/ Tick

SpecDetectors == InitDetector /\ [][NextDetectors]_vars

-----------------------------------------------------------------------------
(* Claims about the detectors *)

StatelessCall == call.op = "generate_fake_anomalies"
StatefulCall == call.op = "detect_anomalies"
ReturnedList == ~call.result.none

\* the anomalies of a type in what the call returned
Returned(type) ==
    IF ReturnedList
    THEN {i \in DOMAIN call.result.v : call.result.v[i].type = type}
    ELSE {}

\* C8: the stateless detector returns a sequence of anomalies that holds a
\* large_transaction anomaly, of severity min(amount/1,000,000, 1.0), iff the
\* amount exceeds 1,000,000: 2,000,000 yields one of severity 1.0 and 500,000
\* yields none.  Checked under SpecStateless.
C8_StatelessLargeTransaction ==
    StatelessCall =>
        /\ ReturnedList
        /\ (Returned("large_transaction") # {}) <=> (call.amount > 1000000)
        /\ \A i \in Returned("large_transaction") :
               call.result.v[i].severity =
                   (IF call.amount > 1000000 THEN R(1, 1)
                    ELSE R(call.amount, 1000000))
        /\ call.amount = 2000000 =>
               \E i \in Returned("large_transaction") :
                   call.result.v[i].severity = R(1, 1)

\* the round_amount rule on what a call returned: one anomaly of severity
\* 0.7 when the rule applies, none when it does not
RoundAmountReturned(applies) ==
    /\ ReturnedList
    /\ (Returned("round_amount") # {}) <=> applies
    /\ \A i \in Returned("round_amount") : call.result.v[i].severity = R(7, 10)

\* the part of C9 about AnomalyDetector.detect_anomalies
C9_StatefulRoundAmount ==
    StatefulCall => RoundAmountReturned(call.amount % 1000 = 0)

\* the part of C9 about FakeDataGenerator.generate_fake_anomalies
C9_StatelessRoundAmount ==
    StatelessCall =>
        RoundAmountReturned(call.amount % 1000 = 0 /\ call.amount > 10000)

\* C9: a round_amount anomaly of severity 0.7 is produced exactly when the
\* amount is a multiple of 1,000 (by the stateless detector only when it also
\* exceeds 10,000), whatever the entities are.  Checked under SpecDetectors.
C9_RoundAmount == C9_StatefulRoundAmount /\ C9_StatelessRoundAmount

\* the high-risk table of the stateless detector, as the specification words
\* it: a jurisdiction is compared with it case-insensitively
StatedCountryRows(j) ==
    IF j.none THEN {}
    ELSE {row \in {<<"ru", 8>>, <<"cn", 7>>, <<"ir", 9>>, <<"kp", 9>>,
                   <<"sy", 8>>, <<"ve", 7>>, <<"mm", 7>>, <<"zw", 6>>,
                   <<"us", 2>>, <<"gb", 2>>, <<"de", 2>>, <<"fr", 2>>,
                   <<"ca", 2>>} : Str(Lower(j.v)) = row[1]}

StatedCountryWeight(j) == (CHOOSE row \in StatedCountryRows(j) : TRUE)[2]

StatedHighRisk(j) == StatedCountryRows(j) # {} /\ StatedCountryWeight(j) > 6

\* C10: for every entity whose jurisdiction, compared case-insensitively, is
\* in the table with a weight above 0.6, the stateless detector returns a
\* high_risk_jurisdiction anomaly of that severity, and it returns none for
\* any other entity.  Checked under SpecStateless.
C10_StatelessHighRiskJurisdiction ==
    StatelessCall =>
        /\ ReturnedList
        /\ \A k \in DOMAIN call.entities :
               LET j == call.entities[k].jurisdiction
               IN  StatedHighRisk(j) =>
                       \E i \in Returned("high_risk_jurisdiction") :
                           /\ call.result.v[i].severity = R(StatedCountryWeight(j), 10)
                           /\ call.result.v[i].description =
                                  "Entity in high-risk jurisdiction: " \o Str(j.v)
        /\ Cardinality(Returned("high_risk_jurisdiction")) =
               Cardinality({k \in DOMAIN call.entities :
                               StatedHighRisk(call.entities[k].jurisdiction)})

-----------------------------------------------------------------------------
(* services/fake_data_generator.py: get_fake_entity_data *)

\* _determine_entity_type: the word lists, tried in this order
generator_shell_words ==
    <<<<"h", "o", "l", "d", "i", "n", "g", "s">>,
      <<"i", "n", "v", "e", "s", "t", "m", "e", "n", "t", "s">>,
      <<"g", "r", "o", "u", "p">>,
      <<"c", "a", "p", "i", "t", "a", "l">>,
      <<"p", "a", "r", "t", "n", "e", "r", "s">>>>

generator_financial_words ==
    <<<<"b", "a", "n", "k">>,
      <<"f", "i", "n", "a", "n", "c", "i", "a", "l">>,
      <<"i", "n", "v", "e", "s", "t">>,
      <<"c", "a", "p", "i", "t", "a", "l">>,
      <<"f", "u", "n", "d">>>>

generator_government_words ==
    <<<<"g", "o", "v", "e", "r", "n", "m", "e", "n", "t">>,
      <<"m", "i", "n", "i", "s", "t", "r", "y">>,
      <<"a", "g", "e", "n", "c", "y">>,
      <<"d", "e", "p", "a", "r", "t", "m", "e", "n", "t">>>>

generator_nonprofit_words ==
    <<<<"f", "o", "u", "n", "d", "a", "t", "i", "o", "n">>,
      <<"c", "h", "a", "r", "i", "t", "y">>,
      <<"t", "r", "u", "s", "t">>,
      <<"a", "s", "s", "o", "c", "i", "a", "t", "i", "o", "n">>>>

determine_entity_type(name) ==
    LET entity_name_lower == Lower(name)
    IN  IF AnyWordIn(generator_shell_words, entity_name_lower) THEN SHELL_COMPANY
        ELSE IF AnyWordIn(generator_financial_words, entity_name_lower)
             THEN FINANCIAL_INTERMEDIARY
        ELSE IF AnyWordIn(generator_government_words, entity_name_lower)
             THEN GOVERNMENT_AGENCY
        ELSE IF AnyWordIn(generator_nonprofit_words, entity_name_lower)
             THEN NON_PROFIT
        ELSE CORPORATION

\* the calendar date of a day number: the inverse of DayNumber
CivilDate(z) ==
    LET era == z \div 146097
        doe == z - era * 146097
        yoe == (doe - doe \div 1460 + doe \div 36524 - doe \div 146096) \div 365
        doy == doe - (365 * yoe + yoe \div 4 - yoe \div 100)
        mp == (5 * doy + 2) \div 153
        d == doy - (153 * mp + 2) \div 5 + 1
        m == IF mp < 10 THEN mp + 3 ELSE mp - 9
    IN  [year |-> yoe + era * 400 + (IF m <= 2 THEN 1 ELSE 0), month |-> m, day |-> d]

\* the decimal digits of n, zero-padded to width characters
RECURSIVE Digits(_, _)
Digits(n, width) ==
    IF width = 0 THEN <<>>
    ELSE Append(Digits(n \div 10, width - 1), DigitChars[(n % 10) + 1])

\* datetime.strftime("%Y-%m-%d") of the time t
strftime(t) ==
    LET c == CivilDate(DateOf(t) + DayNumber(Epoch.year, Epoch.month, Epoch.day))
    IN  Digits(c.year, 4) \o <<"-">> \o Digits(c.month, 2) \o <<"-">>
            \o Digits(c.day, 2)

\* _generate_registration_data draws a country code from the keys of
\* country_risk, and for a shell company from this list instead
shell_country_codes ==
    {<<"R", "U">>, <<"C", "N">>, <<"I", "R">>, <<"V", "E">>,
     <<"M", "M">>, <<"Z", "W">>, <<"K", "P">>, <<"S", "Y">>}

\* random.uniform(lo, hi) of _generate_reputation_score: the two ends
reputation_range(type) ==
    IF type = SHELL_COMPANY THEN {R(2, 10), R(5, 10)}
    ELSE IF type = FINANCIAL_INTERMEDIARY THEN {R(3, 10), R(7, 10)}
    ELSE IF type = GOVERNMENT_AGENCY THEN {R(5, 10), R(8, 10)}
    ELSE {R(4, 10), R(9, 10)}

\* random.uniform(0.7, 1.0) of get_fake_entity_data: the two ends
confidence_range == {R(7, 10), One}

\* _generate_evidence_sources: two of the samples it may draw
evidence_samples == {<<"Company Registry">>, <<"Wikipedia", "SEC EDGAR">>}

\* _generate_risk_factors when neither optional factor is drawn, with
\* random.uniform at its lower end
generated_risk_factors(type) ==
    IF type = SHELL_COMPANY
    THEN {<<"shell_structure", R(6, 10)>>, <<"complex_ownership", R(5, 10)>>}
    ELSE IF type = FINANCIAL_INTERMEDIARY THEN {<<"high_volume", R(4, 10)>>}
    ELSE EmptyDict

\* The random draws of one get_fake_entity_data call: the country code, the
\* age in years, for a shell company possibly an age in days instead, the
\* sanctions flag, the reputation, the confidence, the evidence sources, the
\* digits of the registration number, the directors and the shareholders.
GeneratorDraws(type) ==
    [country : IF type = SHELL_COMPANY THEN shell_country_codes \cap {RU, US}
               ELSE DOMAIN country_risk \cap {RU, US},
     years_ago : {1},
     recent_days : IF type = SHELL_COMPANY THEN {None, Some(179)} ELSE {None},
     sanctioned : BOOLEAN,
     reputation : reputation_range(type),
     confidence : confidence_range,
     evidence : evidence_samples,
     digits : {<<"0", "0", "0", "0", "0", "0", "7">>},
     directors : {<<"Ann Lee">>},
     shareholders : IF type = SHELL_COMPANY THEN {<<>>} ELSE {<<"Bo Roe">>}]

\* the keyword arguments of the Entity that get_fake_entity_data builds
generated_entity_args(name, t, draw) ==
    [name |-> name,
     type |-> determine_entity_type(name),
     confidence_score |-> draw.confidence,
     evidence_sources |-> draw.evidence,
     registration_number |-> Given(Some(draw.country \o draw.digits)),
     jurisdiction |-> Given(Some(draw.country)),
     directors |-> Given(Some(draw.directors)),
     shareholders |-> Given(Some(draw.shareholders)),
     risk_factors |-> Given(Some(generated_risk_factors(determine_entity_type(name)))),
     incorporation_date |->
         Given(Some(IF draw.recent_days.none
                    THEN strftime(t - Days(365 * draw.years_ago))
                    ELSE strftime(t - Days(draw.recent_days.v)))),
     sanctions_status |-> Given(draw.sanctioned),
     reputation_score |-> Given(Some(draw.reputation))]

-----------------------------------------------------------------------------
(* The generator scenarios: entities are looked up by name in the fake     *)
(* entity source, and the stateless detector is called on them, as         *)
(* analyze_transaction does                                                *)

AcmeHoldings == Acme \o <<" ">> \o NameWords[4]
GeneratorNames == {Zed, AcmeHoldings}

InitGenerator ==
    /\ IdleScorer
    /\ IdleClassifier
    /\ IdleDetector
    /\ IdleGenerator
    /\ IdleEnricher
    /\ IdleApi

\* entity = await fake_data_generator.get_fake_entity_data(name); args is
\* Unset when no Entity was constructed
GetFakeEntityData(name, draw) ==
    /\ IF name \in DictKeys(fake_entity_db)
       THEN /\ entity' = Some(DictGet(fake_entity_db, name))
            /\ args' = Unset
            /\ UNCHANGED fake_entity_db
       ELSE /\ draw \in GeneratorDraws(determine_entity_type(name))
            /\ args' = generated_entity_args(name, now, draw)
            /\ entity' = Some(Entity(args'))
            /\ fake_entity_db' = DictPut(fake_entity_db, name, Entity(args'))
    /\ UNCHANGED <<anomalies, amount, risk_score, reason, previous>>
    /\ UNCHANGED <<classifierVars, detectorVars, enricherVars, apiVars>>

\* the same call of generate_fake_anomalies once more: same amount, same
\* entities, at the time it is now
RepeatFakeAnomalies ==
    /\ call.op = "generate_fake_anomalies"
    /\ previous.op = "none"
    /\ previous' = call
    /\ call' = [call EXCEPT
                   !.time = now,
                   !.result = generate_fake_anomalies(call.amount, call.entities, now),
                   !.local = fake_anomalies(call.amount, call.entities, now)]
    /\ UNCHANGED <<now, transaction_history, ledger, fake_entity_db>>
    /\ UNCHANGED <<scorerVars, classifierVars, enricherVars, apiVars>>

\* the entities the source has handed out so far
KnownEntities == {item[2] : item \in fake_entity_db}

RepeatDraws(name) ==
    {d \in GeneratorDraws(determine_entity_type(name)) :
        /\ d.country = RU /\ ~d.sanctioned /\ d.reputation \in {R(2, 10), R(4, 10)}
        /\ d.confidence = One /\ d.evidence = <<"Company Registry">>}

RepeatAmounts == {2000000}

NextRepeat ==
    \/ \E name \in GeneratorNames : \E d \in RepeatDraws(name) :
           GetFakeEntityData(name, d)
    \/ \E amt \in RepeatAmounts, es \in SeqsUpTo(KnownEntities, MaxEntities) :
           GenerateFakeAnomalies(amt, es)
    \/ RepeatFakeAnomalies
    \/ Tick

SpecRepeat == InitGenerator /\ [][NextRepeat]_vars

-----------------------------------------------------------------------------
(* Claims about the stateless detector as a function, checked under        *)
(* SpecRepeat                                                              *)

Repeated ==
    /\ previous.op = "generate_fake_anomalies"
    /\ call.op = "generate_fake_anomalies"
    /\ previous.amount = call.amount
    /\ previous.entities = call.entities

\* two calls with identical inputs at the same evaluation time return the
\* same value and have built the same list, in the same order
C11_SameOutput ==
    (Repeated /\ previous.time = call.time) =>
        /\ previous.result = call.result
        /\ previous.local = call.local

\* a call of generate_fake_anomalies leaves the entity cache, the entities
\* passed in and every other piece of state as they were
C11_NoStateChange ==
    (call' # call /\ call'.op = "generate_fake_anomalies") =>
        /\ fake_entity_db' = fake_entity_db
        /\ \A i \in DOMAIN call'.entities : call'.entities[i] \in KnownEntities'
        /\ UNCHANGED <<transaction_history, ledger, now>>
        /\ UNCHANGED <<scorerVars, classifierVars, enricherVars, apiVars>>

-----------------------------------------------------------------------------
(* Claims about the new_entity rule of the stateless detector, checked     *)
(* under SpecStateless                                                     *)

\* the entity's incorporation date is present, reads as YYYY-MM-DD and lies
\* less than 180 days before the time t
StatedRecentlyFormed(e, t) ==
    /\ ~e.incorporation_date.none
    /\ ~strptime(e.incorporation_date.v).none
    /\ t - strptime(e.incorporation_date.v).v < Days(180)

\* the anomalies that the rules other than new_entity owe for an entity
StatedOtherAnomalies(e) ==
    (IF e.jurisdiction = Some(RU) THEN 1 ELSE 0)
    + (IF e.type = SHELL_COMPANY THEN 1 ELSE 0)

\* C12: the stateless detector returns, without raising, a list in which
\* each entity has a new_entity anomaly of severity 0.6 iff its incorporation
\* date is present, parses as YYYY-MM-DD and is less than 180 days old; an
\* absent or unparsable date adds nothing for that entity, and the anomalies
\* of the other rules and of the other entities are still in the list.
C12_StatelessNewEntity ==
    StatelessCall =>
        /\ ReturnedList
        /\ \A k \in DOMAIN call.entities :
               LET e == call.entities[k]
               IN  (\E i \in Returned("new_entity") :
                        /\ call.result.v[i].severity = R(6, 10)
                        /\ call.result.v[i].description =
                               "Recently formed entity: " \o Str(e.name))
                   <=> StatedRecentlyFormed(e, call.time)
        /\ Cardinality(Returned("high_risk_jurisdiction"))
               + Cardinality(Returned("shell_company"))
           >= LET n[k \in 0..Len(call.entities)] ==
                      IF k = 0 THEN 0
                      ELSE n[k - 1] + StatedOtherAnomalies(call.entities[k])
              IN  n[Len(call.entities)]

-----------------------------------------------------------------------------
(* The history scenarios: AnomalyDetector.detect_anomalies is called again *)
(* and again while time passes; the ledger keeps every observation handed  *)
(* to it                                                                   *)

MaxCalls == 7

\* an entity known by its name only
Customer(name) ==
    Entity([name |-> name, type |-> CORPORATION, jurisdiction |-> Unset,
            incorporation_date |-> Unset, sanctions_status |-> Unset,
            reputation_score |-> Unset])

CustomerNames == {Acme, Zed}

\* the ledger has room for the observations of one more call
LedgerHasRoom(entities, max) == Len(ledger) + Len(entities) <= max

\* One entity a call, up to MaxCalls observations, within two calendar days.
FrequencyAmounts == {5000}

NextFrequency ==
    \/ \E amt \in FrequencyAmounts, cur \in DetectorCurrencies,
          name \in CustomerNames :
           /\ LedgerHasRoom(<<Customer(name)>>, MaxCalls)
           /\ DetectAnomalies(amt, cur, <<Customer(name)>>)
    \/ Tick

SpecFrequency == InitDetector /\ [][NextFrequency]_vars

-----------------------------------------------------------------------------
(* Claims about the history-keeping detector *)

\* the call returned an anomaly of this type and severity for this name
Emitted(type, sev, text, name) ==
    \E i \in Returned(type) :
        /\ call.result.v[i].severity = sev
        /\ call.result.v[i].description = text \o Str(name)

\* the observations of a name on the calendar day of the time t, by position
\* in the ledger
ObservedOn(name, t) ==
    {i \in DOMAIN ledger :
        ledger[i].name = name /\ DateOf(ledger[i].time) = DateOf(t)}

\* C13: counting the calls for one entity name on one calendar day, the
\* call that is given the name returns high_frequency (severity 0.8) for it
\* iff it is the 6th or a later call of that day: never on the first 5.
\* Checked under SpecFrequency, where every call lists one entity.
C13_HighFrequencyFromSixth ==
    StatefulCall =>
        \A k \in DOMAIN call.entities :
            LET name == call.entities[k].name
            IN  Emitted("high_frequency", R(8, 10),
                        "High transaction frequency for ", name)
                <=> Cardinality(ObservedOn(name, call.time)) >= 6

\* the 6th call of the day for a name, with a call for another name among
\* the observations
C13_Witness ==
    /\ StatefulCall
    /\ Len(ledger) = 7
    /\ Cardinality(ObservedOn(call.entities[1].name, call.time)) = 6
    /\ Returned("high_frequency") # {}
    /\ \E i \in DOMAIN ledger : ledger[i].name # call.entities[1].name

-----------------------------------------------------------------------------
(* Up to MaxObservations observations of one or two entities a call, with  *)
(* amounts around the velocity threshold, within two calendar days.        *)

MaxObservations == 3

VelocityAmounts == {50000, 60000}

CustomerLists ==
    {<<Customer(Acme)>>, <<Customer(Zed)>>, <<Customer(Acme), Customer(Zed)>>}

NextVelocity ==
    \/ \E amt \in VelocityAmounts, cur \in DetectorCurrencies,
          es \in CustomerLists :
           /\ LedgerHasRoom(es, MaxObservations)
           /\ DetectAnomalies(amt, cur, es)
    \/ Tick

SpecVelocity == InitDetector /\ [][NextVelocity]_vars

\* the sum of the amounts observed for a name on the calendar day of t
RECURSIVE SumObserved(_, _, _)
SumObserved(observations, name, t) ==
    IF observations = <<>> THEN 0
    ELSE (IF observations[1].name = name
             /\ DateOf(observations[1].time) = DateOf(t)
          THEN observations[1].amount ELSE 0)
         + SumObserved(Tail(observations), name, t)

\* C14: a call returns high_velocity (severity 0.8) for an entity iff the
\* amounts observed for that entity's name on the day of the call, the
\* transaction of the call included, add up to more than 100,000; amounts of
\* earlier days and of other entities do not count.  Checked under
\* SpecVelocity.
C14_HighVelocityOverToday ==
    StatefulCall =>
        \A k \in DOMAIN call.entities :
            LET name == call.entities[k].name
            IN  Emitted("high_velocity", R(8, 10),
                        "High transaction velocity for ", name)
                <=> SumObserved(ledger, name, call.time) > 100000

\* 60,000 after 50,000 on the same day for a name that was observed with
\* 60,000 the day before: high_velocity is returned for 110,000, and it was
\* not returned for the 50,000 that brought the two days to 110,000
C14_Witness ==
    /\ StatefulCall
    /\ Len(ledger) = 3
    /\ \A i \in DOMAIN ledger : ledger[i].name = call.entities[1].name
    /\ DateOf(ledger[1].time) < DateOf(call.time)
    /\ SumObserved(ledger, call.entities[1].name, call.time) = 110000
    /\ Returned("high_velocity") # {}

-----------------------------------------------------------------------------
(* Up to MaxObservations observations while the clock moves on to instants *)
(* around the end of the 30-day window.                                    *)

WindowInstants ==
    {1, Days(1), Days(HistoryDays) - 1, Days(HistoryDays),
     Days(HistoryDays) + 1, Days(HistoryDays + 1)}

\* time passes until the instant t
Advance(t) ==
    /\ now < t
    /\ now' = t
    /\ UNCHANGED <<transaction_history, call, ledger>>
    /\ UNCHANGED <<scorerVars, classifierVars, generatorVars, enricherVars, apiVars>>

WindowAmounts == {60000}

NextWindow ==
    \/ \E amt \in WindowAmounts, cur \in DetectorCurrencies,
          es \in CustomerLists :
           /\ LedgerHasRoom(es, MaxObservations)
           /\ DetectAnomalies(amt, cur, es)
    \/ \E t \in WindowInstants : Advance(t)

SpecWindow == InitDetector /\ [][NextWindow]_vars

\* the observations of a name made before the last call, by position
ObservedEarlier(name) ==
    {i \in 1..(Len(ledger) - Len(call.entities)) : ledger[i].name = name}

FirstObservation(name) ==
    ledger[CHOOSE i \in ObservedEarlier(name) :
               \A j \in ObservedEarlier(name) : i <= j]

\* C15: a call returns new_entity (severity 0.6) for an entity iff its name
\* was never observed before the call, or was first observed less than 30
\* days before it; the first transaction of a name is therefore always
\* flagged.  Checked under SpecWindow.
C15_NewEntityWithinThirtyDays ==
    StatefulCall =>
        \A k \in DOMAIN call.entities :
            LET name == call.entities[k].name
            IN  Emitted("new_entity", R(6, 10), "New entity detected: ", name)
                <=> \/ ObservedEarlier(name) = {}
                    \/ call.time - FirstObservation(name).time < Days(30)

\* a call for a name first observed exactly 30 days before: not flagged
C15_Witness ==
    /\ StatefulCall
    /\ call.entities = <<Customer(Acme)>>
    /\ ObservedEarlier(Acme) # {}
    /\ call.time - FirstObservation(Acme).time = Days(30)
    /\ Returned("new_entity") = {}

\* the observations of a name that are not older than 30 days at the time t
\* and were made on the calendar day of t
CountedObservations(name, t) ==
    {i \in ObservedOn(name, t) : t - ledger[i].time <= Days(30)}

SumCounted(name, t) ==
    LET s[n \in 0..Len(ledger)] ==
            IF n = 0 THEN 0
            ELSE s[n - 1] + (IF n \in CountedObservations(name, t)
                             THEN ledger[n].amount ELSE 0)
    IN  s[Len(ledger)]

\* C16: after the history update of a call, the history of each entity of
\* the call holds no transaction older than 30 days and no per-day sum for a
\* date before the day on which the 30-day window starts, and the frequency
\* count and the velocity sum are those of the observations that are not
\* older than 30 days.  Checked under SpecWindow.
C16_HistoryWithinWindow ==
    StatefulCall =>
        \A k \in DOMAIN call.entities :
            LET name == call.entities[k].name
                entry == DictGet(transaction_history, name)
            IN  /\ name \in DictKeys(transaction_history)
                /\ \A i \in DOMAIN entry.transactions :
                       call.time - entry.transactions[i].time <= Days(30)
                /\ \A d \in DictKeys(entry.daily_amounts) :
                       d >= DateOf(call.time - Days(30))
                /\ Emitted("high_frequency", R(8, 10),
                           "High transaction frequency for ", name)
                   <=> Cardinality(CountedObservations(name, call.time)) > 5
                /\ Emitted("high_velocity", R(8, 10),
                           "High transaction velocity for ", name)
                   <=> SumCounted(name, call.time) > 100000

\* a call for a name with an observation older than 30 days: its history
\* has lost that transaction and the sum of that day
C16_Witness ==
    /\ StatefulCall
    /\ call.entities = <<Customer(Acme)>>
    /\ \E i \in ObservedEarlier(Acme) : call.time - ledger[i].time > Days(30)
    /\ \E i \in ObservedEarlier(Acme) : call.time - ledger[i].time < Days(30)
    /\ Len(DictGet(transaction_history, Acme).transactions) = 2
    /\ Cardinality(DictKeys(DictGet(transaction_history, Acme).daily_amounts)) = 2

-----------------------------------------------------------------------------
(* services/entity_enricher.py.  An Entity is an object: heap[i] holds the  *)
(* attributes of the Entity with identity i, and the cache and the          *)
(* coroutines refer to entities by identity.                                *)

\* Entity(**a) with every attribute of the declaration
EntityObject(a) ==
    [name                |-> a.name,
     type                |-> a.type,
     confidence_score    |-> a.confidence_score,
     evidence_sources    |-> a.evidence_sources,
     registration_number |-> IF a.registration_number.given
                             THEN a.registration_number.v ELSE None,
     jurisdiction        |-> Entity(a).jurisdiction,
     incorporation_date  |-> Entity(a).incorporation_date,
     directors           |-> IF a.directors.given THEN a.directors.v ELSE None,
     shareholders        |-> IF a.shareholders.given THEN a.shareholders.v ELSE None,
     sanctions_status    |-> Entity(a).sanctions_status,
     risk_factors        |-> IF a.risk_factors.given THEN a.risk_factors.v ELSE None,
     reputation_score    |-> Entity(a).reputation_score]

\* a variant that takes the unknown entity for a corporation
basic_entity_as_corporation(entity_id) ==
    EntityObject([name |-> entity_id, type |-> CORPORATION,
                  confidence_score |-> R(5, 10), evidence_sources |-> <<>>,
                  registration_number |-> Unset, jurisdiction |-> Unset,
                  incorporation_date |-> Unset, directors |-> Unset,
                  shareholders |-> Unset, sanctions_status |-> Unset,
                  risk_factors |-> Unset, reputation_score |-> Unset])

\* the Entity that get_entity_details builds for a name it has not cached
basic_entity(entity_id) ==
    EntityObject([name |-> entity_id, type |-> UNKNOWN,
                  confidence_score |-> R(5, 10), evidence_sources |-> <<>>,
                  registration_number |-> Unset, jurisdiction |-> Unset,
                  incorporation_date |-> Unset, directors |-> Unset,
                  shareholders |-> Unset, sanctions_status |-> Unset,
                  risk_factors |-> Unset, reputation_score |-> Unset])

\* enrich_entity, lines 43-49: the entity after the registry lookup returned
apply_registry_data(e, registry_data) ==
    IF registry_data.none THEN e
    ELSE [e EXCEPT
             !.registration_number = registry_data.v.registration_number,
             !.jurisdiction = registry_data.v.jurisdiction,
             !.incorporation_date = registry_data.v.incorporation_date,
             !.directors = registry_data.v.directors,
             !.shareholders = registry_data.v.shareholders,
             !.evidence_sources = Append(@, registry_data.v.source)]

\* enrich_entity, lines 53-55
apply_sanctions_status(e, sanctions_status) ==
    [e EXCEPT
        !.sanctions_status = sanctions_status,
        !.evidence_sources =
            IF sanctions_status THEN Append(@, "Sanctions List") ELSE @]

\* mutant: the sum is returned as it is, without min(base_score, 1.0)
update_confidence_score_uncapped(e) ==
    LET bonus(present) == IF present THEN R(1, 10) ELSE Zero
    IN  RSum(<<e.confidence_score,
               R(Len(e.evidence_sources), 10),
               bonus(Truthy(e.registration_number)),
               bonus(Truthy(e.jurisdiction)),
               bonus(Truthy(e.incorporation_date)),
               bonus(Truthy(e.directors)),
               bonus(Truthy(e.shareholders))>>)

\* _update_confidence_score
update_confidence_score(e) ==
    LET bonus(present) == IF present THEN R(1, 10) ELSE Zero
    IN  RMin(RSum(<<e.confidence_score,
                    R(Len(e.evidence_sources), 10),
                    bonus(Truthy(e.registration_number)),
                    bonus(Truthy(e.jurisdiction)),
                    bonus(Truthy(e.incorporation_date)),
                    bonus(Truthy(e.directors)),
                    bonus(Truthy(e.shareholders))>>),
             One)

\* enrich_entity, lines 59-65
apply_reputation_data(e, reputation_data) ==
    LET e1 == IF reputation_data.none THEN e
              ELSE [e EXCEPT
                       !.reputation_score = Some(reputation_data.v.reputation_score),
                       !.risk_factors = Some(reputation_data.v.risk_factors),
                       !.evidence_sources = Append(@, "News Analysis")]
    IN  [e1 EXCEPT !.confidence_score = update_confidence_score(e1)]

\* what _get_registry_data may return: nothing, the record of SEC EDGAR, or
\* the record of a Wikipedia page whose infobox names neither a founding
\* date nor a location
RegistryAnswers ==
    {None,
     Some([registration_number |-> Some(<<"3", "2", "0">>),
           jurisdiction |-> Some(US), incorporation_date |-> None,
           directors |-> Some(<<>>), shareholders |-> Some(<<>>),
           source |-> "SEC EDGAR"]),
     Some([registration_number |-> None,
           jurisdiction |-> None, incorporation_date |-> None,
           directors |-> Some(<<>>), shareholders |-> Some(<<>>),
           source |-> "Wikipedia"])}

\* what _check_sanctions may return
SanctionsAnswers == BOOLEAN

\* what _get_reputation_data may return: nothing, or the record of the
\* Google News fallback for a feed of five items
ReputationAnswers ==
    {None,
     Some([reputation_score |-> R(5, 10),
           risk_factors |-> {<<"news_volume", R(5, 10)>>}])}

\* a variant that never looks into the cache
enrich_entity_begin_uncached(t, cache, e_id, ename) ==
    [t EXCEPT !.pc = "registry", !.entity = e_id, !.session = "open"]

\* enrich_entity up to its first await, for the entity with identity e_id
\* named ename: a cached name returns the cached entity at once, any other
\* opens a session and waits for the registry lookup
enrich_entity_begin(t, cache, e_id, ename) ==
    IF ename \in DictKeys(cache)
    THEN [t EXCEPT !.pc = "done", !.entity = e_id,
                   !.result = Some(DictGet(cache, ename))]
    ELSE [t EXCEPT !.pc = "registry", !.entity = e_id, !.session = "open"]

-----------------------------------------------------------------------------
(* The enricher scenarios: callers build entities and call the enricher;   *)
(* a call is suspended at each lookup and resumed with the lookup's answer *)

MaxObjects == 2

\* a caller builds an Entity
CreateEntity(a) ==
    /\ Len(heap) < MaxObjects
    /\ heap' = Append(heap, EntityObject(a))
    /\ UNCHANGED <<entity_cache, task>>
    /\ UNCHANGED <<scorerVars, classifierVars, detectorVars, generatorVars, apiVars>>

\* the Entity of identity obj is one a caller holds: it is not the local
\* variable of a get_entity_details call that has not returned yet
HeldByCaller(obj) ==
    \A d \in Coroutines :
        ~(/\ task[d].op = "get_entity_details"
          /\ task[d].pc \notin {"idle", "done"}
          /\ task[d].entity = obj)

\* coroutine c calls enrich_entity(entity) with the Entity of identity obj
EnrichEntity(c, obj) ==
    /\ task[c].pc = "idle"
    /\ obj \in DOMAIN heap
    /\ HeldByCaller(obj)
    /\ task' = [task EXCEPT ![c] =
                   enrich_entity_begin(
                       [IdleTask EXCEPT !.op = "enrich_entity",
                                        !.name = heap[obj].name],
                       entity_cache, obj, heap[obj].name)]
    /\ UNCHANGED <<heap, entity_cache>>
    /\ UNCHANGED <<scorerVars, classifierVars, detectorVars, generatorVars, apiVars>>

\* coroutine c calls get_entity_details(entity_id)
GetEntityDetails(c, entity_id) ==
    /\ task[c].pc = "idle"
    /\ IF entity_id \in DictKeys(entity_cache)
       THEN /\ task' = [task EXCEPT ![c] =
                           [IdleTask EXCEPT
                               !.op = "get_entity_details",
                               !.name = entity_id,
                               !.pc = "done",
                               !.result = Some(DictGet(entity_cache, entity_id))]]
            /\ UNCHANGED heap
       ELSE /\ Len(heap) < MaxObjects
            /\ heap' = Append(heap, basic_entity(entity_id))
            /\ task' = [task EXCEPT ![c] =
                           enrich_entity_begin(
                               [IdleTask EXCEPT !.op = "get_entity_details",
                                                !.name = entity_id],
                               entity_cache, Len(heap) + 1, entity_id)]
    /\ UNCHANGED entity_cache
    /\ UNCHANGED <<scorerVars, classifierVars, detectorVars, generatorVars, apiVars>>

\* registry_data = await self._get_registry_data(...) returns, lines 42-49
RegistryReturns(c, registry_data) ==
    /\ task[c].pc = "registry"
    /\ heap' = [heap EXCEPT ![task[c].entity] = apply_registry_data(@, registry_data)]
    /\ task' = [task EXCEPT ![c].pc = "sanctions",
                            ![c].registry_data = registry_data]
    /\ UNCHANGED entity_cache
    /\ UNCHANGED <<scorerVars, classifierVars, detectorVars, generatorVars, apiVars>>

\* sanctions_status = await self._check_sanctions(...) returns, lines 52-55
SanctionsReturns(c, sanctions_status) ==
    /\ task[c].pc = "sanctions"
    /\ heap' = [heap EXCEPT ![task[c].entity] =
                   apply_sanctions_status(@, sanctions_status)]
    /\ task' = [task EXCEPT ![c].pc = "reputation",
                            ![c].sanctions_status = sanctions_status]
    /\ UNCHANGED entity_cache
    /\ UNCHANGED <<scorerVars, classifierVars, detectorVars, generatorVars, apiVars>>

\* reputation_data = await self._get_reputation_data(...) returns, lines
\* 58-65, up to the await that closes the session
ReputationReturns(c, reputation_data) ==
    /\ task[c].pc = "reputation"
    /\ heap' = [heap EXCEPT ![task[c].entity] =
                   apply_reputation_data(@, reputation_data)]
    /\ task' = [task EXCEPT ![c].pc = "closing",
                            ![c].reputation_data = reputation_data]
    /\ UNCHANGED entity_cache
    /\ UNCHANGED <<scorerVars, classifierVars, detectorVars, generatorVars, apiVars>>

\* the session is closed: the entity is cached and returned, lines 66-69
SessionCloses(c) ==
    /\ task[c].pc = "closing"
    /\ entity_cache' = DictPut(entity_cache, heap[task[c].entity].name,
                               task[c].entity)
    /\ task' = [task EXCEPT ![c].pc = "done",
                            ![c].session = "closed",
                            ![c].result = Some(task[c].entity)]
    /\ UNCHANGED heap
    /\ UNCHANGED <<scorerVars, classifierVars, detectorVars, generatorVars, apiVars>>

\* the caller has taken the result; the coroutine is free for another call
Return(c) ==
    /\ task[c].pc = "done"
    /\ task' = [task EXCEPT ![c] = IdleTask]
    /\ UNCHANGED <<heap, entity_cache>>
    /\ UNCHANGED <<scorerVars, classifierVars, detectorVars, generatorVars, apiVars>>

\* no call of the enricher is in progress
NoCallInProgress == \A c \in Coroutines : task[c].pc = "idle"

\* the steps that resume a suspended call
Resume(c) ==
    \/ \E rd \in RegistryAnswers : RegistryReturns(c, rd)
    \/ \E s \in SanctionsAnswers : SanctionsReturns(c, s)
    \/ \E rep \in ReputationAnswers : ReputationReturns(c, rep)
    \/ SessionCloses(c)

\* an entity a caller knows a good deal about
KnownCustomerArgs ==
    [name |-> Acme, type |-> CORPORATION,
     confidence_score |-> R(5, 10), evidence_sources |-> <<"Customer file">>,
     registration_number |-> Given(Some(<<"7", "7">>)),
     jurisdiction |-> Given(Some(RU)),
     incorporation_date |->
         Given(Some(<<"2", "0", "2", "0", "-", "0", "1", "-", "1", "5">>)),
     directors |-> Given(Some(<<"Ann Lee">>)),
     shareholders |-> Unset,
     sanctions_status |-> Given(TRUE),
     risk_factors |-> Unset,
     reputation_score |-> Given(Some(R(2, 10)))]

LookupArgs == {KnownCustomerArgs}
LookupNames == {Acme, Zed}

LookupDraws(name) ==
    {d \in RepeatDraws(name) : d.recent_days.none}

\* Calls one after the other: of the fake entity source, and of the
\* enricher, where a call starts only when no other is in progress.
NextLookup ==
    \/ \E name \in GeneratorNames : \E d \in LookupDraws(name) :
           GetFakeEntityData(name, d)
    \/ \E a \in LookupArgs : CreateEntity(a)
    \/ \E c \in Coroutines, obj \in 1..MaxObjects :
           NoCallInProgress /\ EnrichEntity(c, obj)
    \/ \E c \in Coroutines, name \in LookupNames :
           NoCallInProgress /\ GetEntityDetails(c, name)
    \/ \E c \in Coroutines : Resume(c)
    \/ \E c \in Coroutines : Return(c)

SpecLookup == InitGenerator /\ [][NextLookup]_vars

-----------------------------------------------------------------------------
(* Claims about entity lookup, checked under SpecLookup *)

\* a step of get_fake_entity_data for a name that is in fake_entity_db
\* returns the cached entity and builds none
GeneratorHit ==
    (/\ <<entity, args, fake_entity_db>>' # <<entity, args, fake_entity_db>>
     /\ entity'.v.name \in DictKeys(fake_entity_db))
    => /\ entity' = Some(DictGet(fake_entity_db, entity'.v.name))
       /\ args' = Unset
       /\ fake_entity_db' = fake_entity_db

\* a call of enrich_entity or get_entity_details for a name that is in
\* entity_cache returns the cached entity at once: no session is opened and
\* no entity is created or changed
EnricherHit ==
    \A c \in Coroutines :
        (/\ task[c].pc = "idle"
         /\ task'[c].pc # "idle"
         /\ task'[c].name \in DictKeys(entity_cache))
        => /\ task'[c].pc = "done"
           /\ task'[c].session = "none"
           /\ task'[c].result = Some(DictGet(entity_cache, task'[c].name))
           /\ heap' = heap
           /\ entity_cache' = entity_cache

\* no step evicts or replaces an entry of either cache, or changes the
\* attributes of a cached entity
CachesKeep ==
    /\ \A name \in DictKeys(fake_entity_db) :
           /\ name \in DictKeys(fake_entity_db')
           /\ DictGet(fake_entity_db', name) = DictGet(fake_entity_db, name)
    /\ \A name \in DictKeys(entity_cache) :
           /\ name \in DictKeys(entity_cache')
           /\ DictGet(entity_cache', name) = DictGet(entity_cache, name)
           /\ heap'[DictGet(entity_cache, name)] = heap[DictGet(entity_cache, name)]

\* C17: when calls are made one after the other, a name that has been
\* generated (get_fake_entity_data) or enriched (enrich_entity,
\* get_entity_details) is answered from the cache of that component by every
\* later call: the cached entity is returned with its attributes as they
\* were, no generation or enrichment pass is made, and no cache entry is
\* ever evicted or replaced.
C17_LookupIsCachedByName ==
    [][GeneratorHit /\ EnricherHit /\ CachesKeep]_vars

\* enrich_entity was called with a new Entity for a name that was enriched
\* before and returned the cached one, and get_fake_entity_data was last
\* answered from its cache
C17_Witness ==
    /\ args = Unset
    /\ ~entity.none
    /\ \E c \in Coroutines :
           /\ task[c].pc = "done"
           /\ task[c].op = "enrich_entity"
           /\ task[c].session = "none"
           /\ task[c].result.v # task[c].entity
           /\ heap[task[c].result.v].evidence_sources # <<>>

\* the steps of an enrichment pass of coroutine c
PassStep(c) ==
    /\ task[c].pc \in {"registry", "sanctions", "reputation"}
    /\ task'[c].pc # task[c].pc

\* the attributes that hold an Optional value
OptionalAttributes ==
    {"registration_number", "jurisdiction", "incorporation_date",
     "directors", "shareholders", "risk_factors"}

IsPrefix(s, t) == Len(s) <= Len(t) /\ SubSeq(t, 1, Len(s)) = s

\* e1 is e0 with evidence appended and empty attributes filled: what e0 had
\* set is still there (a sanctions status of true, a reputation score other
\* than the default 0.0, any other attribute that is not None)
AdditiveMerge(e0, e1) ==
    /\ IsPrefix(e0.evidence_sources, e1.evidence_sources)
    /\ \A f \in OptionalAttributes : ~e0[f].none => e1[f] = e0[f]
    /\ e0.sanctions_status => e1.sanctions_status
    /\ e0.reputation_score \notin {None, Some(R(0, 1))}
           => e1.reputation_score = e0.reputation_score

\* C19: every step of an enrichment pass is an additive merge on the entity
\* being enriched: it appends to the evidence sources and fills attributes,
\* and it neither replaces nor resets an attribute that already had a value.
C19_EnrichmentIsAdditive ==
    [][\A c \in Coroutines :
           PassStep(c) => AdditiveMerge(heap[task[c].entity],
                                        heap'[task[c].entity])]_vars

-----------------------------------------------------------------------------

\* a finished call of get_entity_details whose lookups all came back empty
MissedEverywhere(c) ==
    /\ task[c].op = "get_entity_details"
    /\ task[c].pc = "done"
    /\ task[c].session = "closed"
    /\ task[c].registry_data = None
    /\ ~task[c].sanctions_status
    /\ task[c].reputation_data = None

\* C20: a call of get_entity_details whose registry, sanctions and
\* reputation lookups all fail or find nothing returns an Entity for the
\* requested name, of type Unknown, with sanctions status false, without
\* registry attributes and without evidence, and that entity is the cache
\* entry of the name; no finished call returns None.  Checked under
\* SpecLookup.
C20_MissFallsBackToUnknown ==
    \A c \in Coroutines :
        /\ (task[c].op = "get_entity_details" /\ task[c].pc = "done")
               => /\ ~task[c].result.none
                  /\ heap[task[c].result.v].name = task[c].name
        /\ MissedEverywhere(c)
               => LET e == heap[task[c].result.v]
                  IN  /\ e.type = UNKNOWN
                      /\ ~e.sanctions_status
                      /\ e.registration_number = None
                      /\ e.jurisdiction = None
                      /\ e.incorporation_date = None
                      /\ e.directors = None
                      /\ e.shareholders = None
                      /\ e.evidence_sources = <<>>
                      /\ task[c].name \in DictKeys(entity_cache)
                      /\ DictGet(entity_cache, task[c].name) = task[c].result.v

C20_Witness ==
    \E c \in Coroutines :
        /\ MissedEverywhere(c)
        /\ heap[task[c].result.v] = basic_entity(task[c].name)


-----------------------------------------------------------------------------
(* Concurrent calls of the enricher: the event loop may start a call and   *)
(* resume any suspended call in any order                                  *)

ConcurrentArgs == {KnownCustomerArgs}
ConcurrentNames == {Acme}

InitConcurrent ==
    /\ IdleScorer /\ IdleClassifier /\ IdleDetector /\ IdleGenerator
    /\ IdleEnricher
    /\ IdleApi

NextConcurrent ==
    \/ \E a \in ConcurrentArgs : CreateEntity(a)
    \/ \E c \in Coroutines, obj \in 1..MaxObjects : EnrichEntity(c, obj)
    \/ \E c \in Coroutines, name \in ConcurrentNames : GetEntityDetails(c, name)
    \/ \E c \in Coroutines : Resume(c)
    \/ \E c \in Coroutines : Return(c)

SpecConcurrent == InitConcurrent /\ [][NextConcurrent]_vars

\* coroutine c is inside an enrichment pass whose lookups are not all back
MidPass(c) == task[c].pc \in {"registry", "sanctions", "reputation"}

\* coroutine c runs or has run an enrichment pass in its current call
RanPass(c) == task[c].session # "none"

\* every cache entry is an entity no pass is still working on
CacheEntriesComplete ==
    \A kv \in entity_cache :
        \A c \in Coroutines : ~(MidPass(c) /\ task[c].entity = kv[2])

\* no two calls run an enrichment pass for one name
AtMostOnePass ==
    \A c, d \in Coroutines :
        (c # d /\ RanPass(c) /\ RanPass(d)) => task[c].name # task[d].name

\* two finished calls for one name hold the entity the cache holds
CallersAgree ==
    \A c, d \in Coroutines :
        (c # d /\ task[c].pc = "done" /\ task[d].pc = "done"
             /\ task[c].name = task[d].name)
            => /\ task[c].result = task[d].result
               /\ task[c].name \in DictKeys(entity_cache)
               /\ task[c].result = Some(DictGet(entity_cache, task[c].name))

\* C18: under every interleaving of two enrich_entity / get_entity_details
\* calls for one name, the cache entry of the name is absent or a completely
\* enriched entity, the entity is enriched by at most one pass, and once both
\* calls have finished both callers and the cache hold the same entity.
C18_ConcurrentCallsKeepCache ==
    CacheEntriesComplete /\ AtMostOnePass /\ CallersAgree

-----------------------------------------------------------------------------
(* Further claims about the risk score, checked under SpecScorer *)

InUnitInterval(x) == RLe(Zero, x) /\ RLe(x, One)

-----------------------------------------------------------------------------
(* Claims about the consistency of the transaction history, checked under  *)
(* SpecWindow                                                              *)

\* the sum of the amounts of the transactions of the list txs made on date d
SumOfDate(txs, d) ==
    LET s[n \in 0..Len(txs)] ==
            IF n = 0 THEN 0
            ELSE s[n - 1] + (IF DateOf(txs[n].time) = d THEN txs[n].amount ELSE 0)
    IN  s[Len(txs)]

\* every per-day sum is the sum of the retained transactions of its date
SumsMatchRetained ==
    \A item \in transaction_history :
        \A d \in DictKeys(item[2].daily_amounts) :
            DictGet(item[2].daily_amounts, d) = SumOfDate(item[2].transactions, d)

\* every date with a per-day sum has a retained transaction
SummedDatesRetained ==
    \A item \in transaction_history :
        \A d \in DictKeys(item[2].daily_amounts) :
            \E i \in DOMAIN item[2].transactions :
                DateOf(item[2].transactions[i].time) = d

\* every retained transaction has the per-day sum of its date
RetainedDatesSummed ==
    \A item \in transaction_history :
        \A i \in DOMAIN item[2].transactions :
            DateOf(item[2].transactions[i].time) \in DictKeys(item[2].daily_amounts)

\* C25: in every reachable state, for every entity and calendar date the
\* per-day sum equals the sum of the amounts of the retained transactions of
\* that date, and a date has a per-day sum iff it has a retained
\* transaction, also at the 30-day pruning boundary.
C25_DailySumsMatchTransactions ==
    SumsMatchRetained /\ SummedDatesRetained /\ RetainedDatesSummed

-----------------------------------------------------------------------------
(* Claims about first_seen, checked under SpecWindow *)

\* a step keeps every entity of the history and its first_seen
FirstSeenKept ==
    \A item \in transaction_history :
        /\ item[1] \in DictKeys(transaction_history')
        /\ DictGet(transaction_history', item[1]).first_seen = item[2].first_seen

\* first_seen of every entity is the time of its first observation
FirstSeenIsFirstObservation ==
    \A item \in transaction_history :
        /\ \E i \in DOMAIN ledger : ledger[i].name = item[1]
        /\ item[2].first_seen =
               ledger[CHOOSE i \in DOMAIN ledger :
                          /\ ledger[i].name = item[1]
                          /\ \A j \in DOMAIN ledger :
                                 ledger[j].name = item[1] => i <= j].time

\* a call does not return new_entity for a name first observed 30 days or
\* more before it
KnownLongIsNotNew ==
    StatefulCall =>
        \A k \in DOMAIN call.entities :
            LET name == call.entities[k].name
            IN  (/\ ObservedEarlier(name) # {}
                 /\ call.time - FirstObservation(name).time >= Days(30))
                    => ~Emitted("new_entity", R(6, 10), "New entity detected: ", name)

\* C26: first_seen of an entity is set at its first observation and no step
\* changes or removes it afterwards, also when pruning removes every earlier
\* transaction of the entity; so a call never returns new_entity for an
\* entity first observed 30 days or more before it.
C26_FirstSeenIsPermanent ==
    /\ [][FirstSeenKept]_vars
    /\ [](FirstSeenIsFirstObservation /\ KnownLongIsNotNew)

\* C26 witness: a call for a name whose earlier transactions have all been
\* pruned: first_seen is still the time of the first observation, and the
\* entity is not flagged
C26_Witness ==
    /\ StatefulCall
    /\ call.entities = <<Customer(Acme)>>
    /\ ObservedEarlier(Acme) # {}
    /\ Len(DictGet(transaction_history, Acme).transactions) = 1
    /\ DictGet(transaction_history, Acme).first_seen = FirstObservation(Acme).time
    /\ DictGet(transaction_history, Acme).first_seen < call.time
    /\ Returned("new_entity") = {}

-----------------------------------------------------------------------------
(* Calls whose entity list names an entity more than once *)

DuplicateLists ==
    {<<Customer(Acme)>>, <<Customer(Acme), Customer(Acme)>>,
     <<Customer(Acme), Customer(Zed), Customer(Acme)>>}

NextDuplicates ==
    \/ \E amt \in WindowAmounts, cur \in DetectorCurrencies,
          es \in DuplicateLists :
           /\ LedgerHasRoom(es, MaxCalls)
           /\ DetectAnomalies(amt, cur, es)
    \/ Tick

SpecDuplicates == InitDetector /\ [][NextDuplicates]_vars

\* the number of transactions of the time t that the history holds for a name
RecordedAt(history, name, t) ==
    IF name \notin DictKeys(history) THEN 0
    ELSE LET txs == DictGet(history, name).transactions
         IN  Cardinality({i \in DOMAIN txs : txs[i].time = t})

\* the per-day sum that the history holds for a name and the date of t
RecordedSum(history, name, t) ==
    IF name \notin DictKeys(history) THEN 0
    ELSE LET daily == DictGet(history, name).daily_amounts
         IN  IF DateOf(t) \in DictKeys(daily) THEN DictGet(daily, DateOf(t)) ELSE 0

\* C27: a detect_anomalies call records its transaction exactly once for
\* each distinct entity name of the call: the history of a name gains one
\* entry and today's sum of the name grows by the amount once, however many
\* times the name appears in the entities argument.
C27_RecordedOncePerName ==
    [][transaction_history' # transaction_history =>
          \A k \in DOMAIN call'.entities :
              LET name == call'.entities[k].name
              IN  /\ RecordedAt(transaction_history', name, now)
                         = RecordedAt(transaction_history, name, now) + 1
                  /\ RecordedSum(transaction_history', name, now)
                         = RecordedSum(transaction_history, name, now)
                               + call'.amount]_vars

-----------------------------------------------------------------------------
(* services/entity_extractor.py: extract_entities *)

IsUpper(c) == \E i \in DOMAIN UpperCaseLetters : UpperCaseLetters[i] = c
IsLetter(c) == IsUpper(c) \/ \E i \in DOMAIN LowerCaseLetters : LowerCaseLetters[i] = c

\* \s of a regular expression
IsSpace(c) == c \in {" ", "\t", "\n", "\r"}

\* \w of a regular expression
IsWordChar(c) == IsLetter(c) \/ IsDigit(c) \/ c = "_"

\* \b of a regular expression, between the characters k and k + 1 of text
WordBoundary(text, k) ==
    (k >= 1 /\ IsWordChar(text[k])) # (k < Len(text) /\ IsWordChar(text[k + 1]))

\* $ of a regular expression after the character k of text
AtEndOfString(text, k) ==
    \/ k = Len(text)
    \/ k = Len(text) - 1 /\ text[Len(text)] = "\n"

\* _calculate_confidence_score
calculate_confidence_score(name, type) ==
    LET base0 == R(5, 10)
        base1 == IF type # UNKNOWN THEN RAdd(base0, R(3, 10)) ELSE base0
        base2 == IF \E i \in DOMAIN name : IsUpper(name[i])
                 THEN RAdd(base1, R(1, 10)) ELSE base1
        base3 == IF \E i \in DOMAIN name : IsDigit(name[i])
                 THEN RAdd(base2, R(1, 10)) ELSE base2
    IN  RMin(base3, One)

\* Entity(name=..., type=..., confidence_score=..., evidence_sources=[source])
\* as extract_entities and _extract_entities_by_pattern build it
extracted_entity(name, source) ==
    EntityObject([name |-> name,
                  type |-> classify_entity_type(name),
                  confidence_score |->
                      calculate_confidence_score(name, classify_entity_type(name)),
                  evidence_sources |-> <<source>>,
                  registration_number |-> Unset, jurisdiction |-> Unset,
                  incorporation_date |-> Unset, directors |-> Unset,
                  shareholders |-> Unset, sanctions_status |-> Unset,
                  risk_factors |-> Unset, reputation_score |-> Unset])

\* company_pattern matches text from the character i to the character e:
\* \b, a capital letter, one or more letters or spaces, a company suffix
\* followed by $ and \b.  The pattern is case-sensitive.
CompanyPatternMatch(text, i, e) ==
    /\ AtEndOfString(text, e)
    /\ WordBoundary(text, e)
    /\ IsUpper(text[i])
    /\ WordBoundary(text, i - 1)
    /\ \E p \in DOMAIN company_suffixes :
           LET j == e - Len(company_suffixes[p]) + 1
           IN  /\ j >= i + 2
               /\ SubSeq(text, j, e) = company_suffixes[p]
               /\ \A k \in (i + 1)..(j - 1) : IsLetter(text[k]) \/ IsSpace(text[k])

\* re.finditer(company_pattern, text): the leftmost match; it runs to the end
\* of the text, so there is no second one
pattern_matches(text) ==
    LET found == {m \in (DOMAIN text) \X {Len(text) - 1, Len(text)} :
                     m[1] <= m[2] /\ CompanyPatternMatch(text, m[1], m[2])}
    IN  IF found = {} THEN <<>>
        ELSE LET m == CHOOSE m \in found : \A n \in found : m[1] <= n[1]
             IN  <<SubSeq(text, m[1], m[2])>>

\* _extract_entities_by_pattern
extract_entities_by_pattern(text) ==
    [m \in DOMAIN pattern_matches(text) |->
        extracted_entity(pattern_matches(text)[m], "Pattern Matching")]

\* extract_entities, where orgs are the texts of the spans of doc.ents that
\* the language model labelled ORG, in the order of the text
extract_entities(text, orgs) ==
    [k \in DOMAIN orgs |-> extracted_entity(orgs[k], "NLP Extraction")]
        \o extract_entities_by_pattern(text)

-----------------------------------------------------------------------------
(* main.py: analyze_transaction *)

\* one get_fake_entity_data call on the cache db: the cache it leaves and
\* the entity it returns
get_fake_entity_data(db, name, t, draw) ==
    IF name \in DictKeys(db)
    THEN [db |-> db, entity |-> DictGet(db, name)]
    ELSE LET e == EntityObject(generated_entity_args(name, t, draw))
         IN  [db |-> DictPut(db, name, e), entity |-> e]

\* the loop "for entity in entities" of lines 117-120
RECURSIVE enrich_loop(_, _, _, _, _)
enrich_loop(db, enriched, entities, draws, t) ==
    IF entities = <<>> THEN [db |-> db, enriched |-> enriched]
    ELSE LET r == get_fake_entity_data(db, entities[1].name, t, draws[1])
         IN  enrich_loop(r.db, Append(enriched, r.entity), Tail(entities),
                         Tail(draws), t)

AnalysisResult(transaction_id, e, score, text) ==
    [transaction_id |-> transaction_id,
     extracted_entity |-> <<e.name>>,
     entity_type |-> <<e.type>>,
     risk_score |-> score,
     supporting_evidence |-> e.evidence_sources,
     confidence_score |-> e.confidence_score,
     reason |-> text]

\* the loop "for entity in enriched_entities" of lines 129-146
analysis_results(request, enriched, found) ==
    [k \in DOMAIN enriched |->
        AnalysisResult(
            request.transaction_id, enriched[k],
            calculate_risk_score(enriched[k], found, Some(request.amount)),
            generate_risk_reason(
                enriched[k],
                calculate_risk_score(enriched[k], found, Some(request.amount)),
                found))]

-----------------------------------------------------------------------------
(* The analysis scenario: requests are analysed one after the other *)

MaxRequests == 2
MaxOrgs == 2

AnalysisTexts ==
    {<<"A", "c", "m", "e", " ", "p", "a", "y", "s", " ", "A", "c", "m", "e">>,
     <<"p", "a", "y", " ", "A", "c", "m", "e", " ", "i", "n", "c">>,
     <<"Z", "e", "d", " ", "p", "a", "y", "s", " ", "A", "c", "m", "e", " ",
       "H", "o", "l", "d", "i", "n", "g", "s">>}

AnalysisRequests ==
    [transaction_id : {"TXN1"},
     transaction_data : AnalysisTexts,
     amount : {2000000},
     currency : {"USD"},
     date : {"2026-11-01"}]

\* the spans of a text that the language model may label ORG: one or two
\* whole words, the first with a capital letter
OrgSpans(text) ==
    {sp \in (DOMAIN text) \X (DOMAIN text) :
        /\ sp[1] <= sp[2]
        /\ IsUpper(text[sp[1]])
        /\ sp[1] = 1 \/ text[sp[1] - 1] = " "
        /\ sp[2] = Len(text) \/ text[sp[2] + 1] = " "
        /\ text[sp[2]] # " "
        /\ Cardinality({k \in sp[1]..sp[2] : text[k] = " "}) <= 1}

\* doc.ents restricted to the label ORG: up to MaxOrgs spans that do not
\* overlap, in the order of the text
OrgSpanLists(text) ==
    {l \in SeqsUpTo(OrgSpans(text), MaxOrgs) :
        \A k \in 1..(Len(l) - 1) : l[k][2] < l[k + 1][1]}

\* the draws of get_fake_entity_data used in this scenario: two for each
\* entity type
AnalysisDraws(type) ==
    {d \in GeneratorDraws(type) :
        /\ d.recent_days.none
        /\ d.evidence = <<"Company Registry">>
        /\ d.sanctioned <=> d.confidence = One
        /\ d.sanctioned <=> \A r \in reputation_range(type) : RLe(d.reputation, r)
        /\ type # SHELL_COMPANY => (d.sanctioned <=> d.country = RU)}

\* POST /api/v1/analyze: analyze_transaction, lines 112-148.  spans are the
\* ORG spans the language model finds in the text, flags the random draws of
\* the entity source.
AnalyzeTransaction(request, spans, flags) ==
    /\ analysis.served < MaxRequests
    /\ \E orgs \in {[k \in DOMAIN spans |->
                        SubSeq(request.transaction_data, spans[k][1], spans[k][2])]} :
       \E entities \in {extract_entities(request.transaction_data, orgs)} :
       \E draws \in {[k \in DOMAIN entities |->
                         CHOOSE d \in AnalysisDraws(
                                          determine_entity_type(entities[k].name)) :
                             d.sanctioned = flags[k]]} :
       \E looked \in {enrich_loop(fake_entity_db, <<>>, entities, draws, now)} :
       \E found \in {generate_fake_anomalies(request.amount, looked.enriched, now)} :
           /\ analysis' = [op |-> "analyze_transaction",
                           served |-> analysis.served + 1,
                           request |-> request,
                           time |-> now,
                           entities |-> entities,
                           enriched |-> looked.enriched,
                           anomalies |-> found,
                           response |-> analysis_results(request, looked.enriched,
                                                         found)]
           /\ fake_entity_db' = looked.db
    /\ UNCHANGED previous
    /\ UNCHANGED <<scorerVars, classifierVars, detectorVars, enricherVars>>

InitAnalysis ==
    /\ IdleScorer /\ IdleClassifier /\ IdleDetector /\ IdleGenerator
    /\ IdleEnricher /\ IdleApi

NextAnalysis ==
    \/ \E request \in AnalysisRequests :
           \E spans \in OrgSpanLists(request.transaction_data) :
               \E flags \in [1..(MaxOrgs + 1) -> BOOLEAN] :
                   AnalyzeTransaction(request, spans, flags)

SpecAnalysis == InitAnalysis /\ [][NextAnalysis]_vars

-----------------------------------------------------------------------------
(* Claims about analyze_transaction, checked under SpecAnalysis *)

Analysed == analysis.op = "analyze_transaction"

\* the entity names of a list of entities, of a list of results
NamesOf(entities) == {entities[k].name : k \in DOMAIN entities}
ResultNames(results) == {results[k].extracted_entity[1] : k \in DOMAIN results}

\* the response has a result for every entity found in the text, and for
\* no other
ResultForEachEntity ==
    Analysed => ResultNames(analysis.response) = NamesOf(analysis.entities)

\* no two results of the response are for the same entity name
NoTwoResultsForOneName ==
    Analysed =>
        \A i, j \in DOMAIN analysis.response :
            i # j => analysis.response[i].extracted_entity
                         # analysis.response[j].extracted_entity

\* every result carries the transaction id of the request and the name,
\* type, evidence, confidence, risk score and reason of its entity
ResultsCarryEntity ==
    Analysed =>
        \A k \in DOMAIN analysis.response :
            LET res == analysis.response[k]
                e == DictGet(fake_entity_db, res.extracted_entity[1])
                score == calculate_risk_score(e, analysis.anomalies,
                                              Some(analysis.request.amount))
            IN  /\ Len(res.extracted_entity) = 1
                /\ res.extracted_entity[1] \in DictKeys(fake_entity_db)
                /\ res.transaction_id = analysis.request.transaction_id
                /\ res.entity_type = <<e.type>>
                /\ res.supporting_evidence = e.evidence_sources
                /\ res.confidence_score = e.confidence_score
                /\ res.risk_score = score
                /\ res.reason = generate_risk_reason(e, score, analysis.anomalies)

\* C21: analyze_transaction returns exactly one result per (transaction,
\* entity) pair, entities identified by name: one result for each entity
\* found in the text, never two results for the same entity name, each with
\* the transaction id of the request and the name, type, evidence list,
\* confidence, risk score and reason of that entity.
C21_OneResultPerEntity ==
    ResultForEachEntity /\ NoTwoResultsForOneName /\ ResultsCarryEntity


\* the score and the reason analyze_transaction gives when e is the only
\* entity of a request of this amount served at time t
ScoredAlone(e, amt, t) ==
    LET found == generate_fake_anomalies(amt, <<e>>, t)
        score == calculate_risk_score(e, found, Some(amt))
    IN  [risk_score |-> score, reason |-> generate_risk_reason(e, score, found)]

-----------------------------------------------------------------------------
(* The producers of entities: the extractor behind GET                      *)
(* /api/v1/extract-entities, the entity source behind GET                   *)
(* /api/v1/entity/{entity_id}, and the enricher                             *)

MaxArticles == 2

\* the sentiment of one article, lines 216-222 of entity_enricher.py: +1 for
\* a positive word, -1 for a negative word
article_sentiment(positive, negative) ==
    (IF positive THEN 1 ELSE 0) - (IF negative THEN 1 ELSE 0)

\* the reputation_score _get_reputation_data computes from the sentiments of
\* the articles News API returned, lines 224-230
news_reputation_score(sentiment_scores) ==
    LET total == RSum([k \in DOMAIN sentiment_scores |-> R(sentiment_scores[k], 1)])
        avg_sentiment == IF sentiment_scores # <<>>
                         THEN RDivInt(total, Len(sentiment_scores)) ELSE Zero
    IN  RDivInt(RAdd(avg_sentiment, One), 2)

\* what _get_reputation_data may return when a News API key is set: nothing,
\* the record of the Google News fallback, or the record computed from
\* MaxArticles articles none of which has a negative keyword
NewsAnswers ==
    ReputationAnswers
    \cup {Some([reputation_score |-> news_reputation_score(sentiment_scores),
                risk_factors |-> EmptyDict]) :
             sentiment_scores \in
                 [1..MaxArticles -> {article_sentiment(p, n) : p, n \in BOOLEAN}]}

ProducerTexts == {<<"A", "c", "m", "e", "2", " ", "i", "n", "c">>}

\* GET /api/v1/extract-entities, lines 192-196 of main.py: spans are the ORG
\* spans the language model finds in the text
ExtractEntities(text, spans) ==
    /\ analysis' = [op |-> "extract_entities",
                    served |-> analysis.served,
                    entities |-> extract_entities(
                                     text,
                                     [k \in DOMAIN spans |->
                                         SubSeq(text, spans[k][1], spans[k][2])])]
    /\ UNCHANGED <<scorerVars, classifierVars, detectorVars, generatorVars,
                   enricherVars>>

\* GET /api/v1/entity/{entity_id}, lines 153-159 of main.py
GetEntity(entity_id, draw) ==
    /\ \E r \in {get_fake_entity_data(fake_entity_db, entity_id, now, draw)} :
           /\ fake_entity_db' = r.db
           /\ analysis' = [op |-> "get_entity_details",
                           served |-> analysis.served,
                           entities |-> <<r.entity>>]
    /\ UNCHANGED previous
    /\ UNCHANGED <<scorerVars, classifierVars, detectorVars, enricherVars>>

\* the enricher is called by one coroutine
ProducerCoroutines == {1}

NextProducers ==
    \/ \E text \in ProducerTexts : \E spans \in OrgSpanLists(text) :
           ExtractEntities(text, spans)
    \/ \E d \in AnalysisDraws(determine_entity_type(AcmeHoldings)) :
           GetEntity(AcmeHoldings, d)
    \/ \E a \in LookupArgs : CreateEntity(a)
    \/ \E c \in ProducerCoroutines, obj \in 1..MaxObjects :
           NoCallInProgress /\ EnrichEntity(c, obj)
    \/ \E c \in ProducerCoroutines, rd \in RegistryAnswers :
           RegistryReturns(c, rd)
    \/ \E c \in ProducerCoroutines, s \in SanctionsAnswers :
           SanctionsReturns(c, s)
    \/ \E c \in ProducerCoroutines, rep \in NewsAnswers :
           ReputationReturns(c, rep)
    \/ \E c \in ProducerCoroutines : SessionCloses(c)
    \/ \E c \in ProducerCoroutines : Return(c)

SpecProducers == InitAnalysis /\ [][NextProducers]_vars


-----------------------------------------------------------------------------
(* Claims about the entities the producers hand out, checked under          *)
(* SpecProducers                                                            *)

\* every Entity there is: the objects of the enricher and its callers, the
\* entries of the entity source, and the entities of the last API response
EntitiesProduced ==
    {heap[i] : i \in DOMAIN heap}
    \cup {kv[2] : kv \in fake_entity_db}
    \cup (IF analysis.op = "none" THEN {}
          ELSE {analysis.entities[k] : k \in DOMAIN analysis.entities})
    \cup (IF analysis.op = "analyze_transaction"
          THEN {analysis.enriched[k] : k \in DOMAIN analysis.enriched}
          ELSE {})

ScoresInUnitInterval(e) ==
    /\ InUnitInterval(e.confidence_score)
    /\ e.reputation_score.none \/ InUnitInterval(e.reputation_score.v)

=============================================================================
